---- MODULE Spec2Model ----
(***************************************************************************)
(* Model of the rule-rewrite engines of the VB -> C# migrator              *)
(* (src/src/migration/rules-engine.ts) and of the emit paths that call     *)
(* them (src/src/generators/csharp-generator.ts,                           *)
(* src/src/analyzers/module-migrator.ts).                                  *)
(*                                                                         *)
(* Text is a sequence of tokens.  "\n" is the line break, " " is an        *)
(* explicit run of blanks (indentation, a blank line); between any two     *)
(* other tokens the horizontal white space of the source is implicit.      *)
(* The source words ElseIf, End If, End Sub are the token pairs            *)
(* <<"Else","If">>, <<"End","If">>, <<"End","Sub">>, so that a pattern     *)
(* without \b, such as /If\s+(.+?)\s+Then/, matches inside them as it      *)
(* does in the source text.                                                *)
(* A regular expression of the source is a sequence of pattern elements    *)
(* over tokens, matched with the precedence rules of the regexp engine     *)
(* (leftmost match, greedy and lazy quantifiers, backtracking).            *)
(***************************************************************************)
EXTENDS Integers, Sequences, FiniteSets, TLC

VARIABLES
  rules,     \* MigrationRulesEngine.rules: the registry, in array order
  nextSeq,   \* number of rules ever declared or added (stamps the next one)
  call,      \* the last applyRules call: its input, output and what it did
  memo,      \* the first applyRules call since the registry last changed
  emit,      \* the last method emitted by the generator or the module migrator
  conv,      \* the last conversion of a fixture, or of the output of one
  migration, \* the last migrateModule call and its MigrationResult
  disk,      \* the files under the output directory: path and content
  generated, \* the last generateProject or performMigration call
  proposal,  \* the last generateProposal call and the projects it proposes
  extraction, \* the last parseVBProject call: the tree and what it returned
  scanned,   \* the last VBModuleAnalyzer extraction: the lines and the units
  server     \* the stdio server: lines read, calls in flight, lines written

\* the state of the rule engines, and the state of the project pipeline
engine == <<rules, nextSeq, call, memo, emit, conv>>
frontend == <<scanned, server>>
pipeline == <<migration, disk, generated, proposal, extraction, scanned, server>>

vars == <<rules, nextSeq, call, memo, emit, conv,
          migration, disk, generated, proposal, extraction, scanned, server>>

----------------------------------------------------------------------------
(* Tokens *)

NL == "\n"
BL == " "
Space == {NL, BL}
StrLit == {"\"s\"", "\"t\""}                  \* "[^"]+"
StrLits == StrLit \cup {"\"\"", "\"Mensaje\""}    \* "[^"]*"
Punct == {"(", ")", "&", "'", "=", ",", ".", ">", "<", "+", "//", "{", "}",
          "&&", "||", "!", ";", "<=", "++", "+=", "0.0", "0.0f", "\"",
          "\"Provider=Microsoft.ACE.OLEDB.12.0;Data Source=",
          "// TODO: Implement method logic", "// TODO: Implement method body"}
         \cup StrLits

\* \w+ : a token made of word characters
IsWord(tok) == tok \notin Space /\ tok \notin Punct

Max(S) == CHOOSE x \in S : \A y \in S : y <= x
Min(S) == CHOOSE x \in S : \A y \in S : x <= y

\* number of consecutive tokens of t from position i on that satisfy In(_)
RECURSIVE Run(_, _, _)
Run(t, i, allowed) ==
  IF i <= Len(t) /\ t[i] \in allowed THEN 1 + Run(t, i + 1, allowed) ELSE 0

RECURSIVE RunNot(_, _, _)
RunNot(t, i, stop) ==
  IF i <= Len(t) /\ t[i] \notin stop THEN 1 + RunNot(t, i + 1, stop) ELSE 0

----------------------------------------------------------------------------
(* Pattern elements *)

El(t, v, s, sub, n) == [t |-> t, v |-> v, s |-> s, sub |-> sub, n |-> n]
Lit(v)        == El("lit", v, {}, <<>>, 0)      \* the literal token v
Cls(s)        == El("cls", "", s, <<>>, 0)      \* (a|b|c), captured
Word          == El("word", "", {}, <<>>, 0)    \* (\w+), captured
Ws            == El("ws", "", {}, <<>>, 0)      \* \s* or \s+ (greedy)
Ws1           == El("ws1", "", {}, <<>>, 0)     \* \s+ where no other token is
Operand       == El("operand", "", {}, <<>>, 0) \* (\w+|"[^"]*"), captured
Dollar        == El("dollar", "", {}, <<>>, 0)  \* $ under the m flag
WsCap         == El("wscap", "", {}, <<>>, 0)   \* (\s*), captured
Lazy(stop, m) == El("lazy", "", stop, <<>>, m)  \* (.+?) ([\s\S]*?), captured
Greedy(stop, m) == El("greedy", "", stop, <<>>, m) \* ([^)]*) ([^"]+), captured
Opt(sub, n)   == El("opt", "", {}, sub, n)      \* (...)? holding n captures
Bol           == El("bol", "", {}, <<>>, 0)     \* ^ under the m flag
Ahead(alts)   == El("ahead", "", {}, alts, 0)   \* (?=a|b|c)
Eol           == El("eol", "", {}, <<>>, 0)     \* (?=\s*$|\s*\n)

NoMatch == [ok |-> FALSE, end |-> 0, caps |-> <<>>]

Blanks(n) == [k \in 1..n |-> <<>>]

\* \s* and \s+ match nothing but the implicit white space where the next
\* token is not a white-space token: the element is passed over
SkipWs(p, t, i) ==
  IF Len(p) > 0 /\ Head(p).t = "ws" /\ (i > Len(t) \/ t[i] \notin Space)
    THEN Tail(p) ELSE p

\* The match of pattern p against text t starting at token i, or NoMatch.
RECURSIVE Match(_, _, _, _)

\* A quantified element that starts at token i and may take j tokens, for
\* j from `from` to `to` in steps of d (d = 1: lazy, d = -1: greedy): the
\* first j with which the rest of the pattern matches decides.
RECURSIVE Try(_, _, _, _, _, _, _, _)
Try(rest, t, i, caps, cap, from, to, d) ==
  IF (d > 0 /\ from > to) \/ (d < 0 /\ from < to) THEN NoMatch
  ELSE LET m == Match(rest, t, i + from,
                      IF cap THEN Append(caps, SubSeq(t, i, i + from - 1)) ELSE caps)
       IN IF m.ok THEN m ELSE Try(rest, t, i, caps, cap, from + d, to, d)

Match(p, t, i, caps) ==
  IF Len(p) = 0 THEN [ok |-> TRUE, end |-> i, caps |-> caps]
  ELSE
    LET e == Head(p)
        rest == Tail(p)
        next == SkipWs(rest, t, i + 1)
        here == i <= Len(t)
    IN
    CASE e.t = "lit" ->
           IF here /\ t[i] = e.v THEN Match(next, t, i + 1, caps) ELSE NoMatch
      [] e.t = "cls" ->
           IF here /\ t[i] \in e.s
             THEN Match(next, t, i + 1, Append(caps, <<t[i]>>)) ELSE NoMatch
      [] e.t = "word" ->
           IF here /\ IsWord(t[i])
             THEN Match(next, t, i + 1, Append(caps, <<t[i]>>)) ELSE NoMatch
      [] e.t = "operand" ->
           IF here /\ (IsWord(t[i]) \/ t[i] \in StrLits)
             THEN Match(next, t, i + 1, Append(caps, <<t[i]>>)) ELSE NoMatch
      [] e.t = "ws" -> Try(rest, t, i, caps, FALSE, Run(t, i, Space), 0, -1)
      [] e.t = "ws1" -> Try(rest, t, i, caps, FALSE, Run(t, i, Space), 1, -1)
      [] e.t = "dollar" ->
           IF i > Len(t) \/ t[i] = NL THEN Match(rest, t, i, caps) ELSE NoMatch
      [] e.t = "wscap" -> Try(rest, t, i, caps, TRUE, Run(t, i, Space), 0, -1)
      [] e.t = "lazy" -> Try(rest, t, i, caps, TRUE, e.n, RunNot(t, i, e.s), 1)
      [] e.t = "greedy" -> Try(rest, t, i, caps, TRUE, RunNot(t, i, e.s), e.n, -1)
      [] e.t = "opt" ->
           LET a == Match(e.sub \o rest, t, i, caps)
           IN IF a.ok THEN a ELSE Match(rest, t, i, caps \o Blanks(e.n))
      [] e.t = "bol" ->
           IF i = 1 \/ (i - 1 <= Len(t) /\ t[i - 1] = NL)
             THEN Match(rest, t, i, caps) ELSE NoMatch
      [] e.t = "ahead" ->
           IF \E k \in 1..Len(e.sub) : Match(e.sub[k], t, i, <<>>).ok
             THEN Match(rest, t, i, caps) ELSE NoMatch
      [] e.t = "eol" ->
           LET j == i + Run(t, i, {BL})
           IN IF j > Len(t) \/ t[j] = NL \/ i + Run(t, i, Space) > Len(t)
                THEN Match(rest, t, i, caps) ELSE NoMatch

----------------------------------------------------------------------------
(* Rules of the baseline engine *)

\* a replacement template: literal tokens and group references $n
T(v) == [g |-> 0, v |-> v]
G(n) == [g |-> n, v |-> ""]

Access == {"Private", "Public", "Protected", "Friend"}
SubOrFunction == {"Sub", "Function"}
HandlerNames == {"btn_Click"}

Rule(id, priority, pattern, global, repl, fn, conds) ==
  [id |-> id, priority |-> priority, pattern |-> pattern, global |-> global,
   repl |-> repl, fn |-> fn, conds |-> conds]

\* MigrationRulesEngine.initializeRules: the rules in declaration order
BuiltinRules == <<
  Rule("vb-dim-declaration", 10,
       <<Lit("Dim"), Ws, Word, Ws, Lit("As"), Ws, Word>>, TRUE,
       <<G(2), G(1)>>, "", <<>>),
  Rule("vb-new-object", 10,
       <<Lit("Dim"), Ws, Word, Ws, Lit("As"), Ws, Lit("New"), Ws, Word, Ws,
         Lit("("), Lazy({NL}, 0), Lit(")")>>, TRUE,
       <<T("var"), G(1), T("="), T("new"), G(2), T("("), G(3), T(")")>>, "", <<>>),
  Rule("vb-if-then", 9,
       <<Lit("If"), Ws, Lazy({NL}, 1), Ws, Lit("Then")>>, TRUE,
       <<T("if"), T("("), G(1), T(")")>>, "", <<>>),
  Rule("vb-elseif", 9,
       <<Lit("Else"), Lit("If"), Ws, Lazy({NL}, 1), Ws, Lit("Then")>>, TRUE,
       <<T("else"), T("if"), T("("), G(1), T(")")>>, "", <<>>),
  Rule("vb-end-if", 8, <<Lit("End"), Lit("If")>>, TRUE, <<T("}")>>, "", <<>>),
  Rule("vb-string-type", 9, <<Lit("String")>>, TRUE, <<T("string")>>, "", <<>>),
  Rule("vb-integer-type", 9, <<Lit("Integer")>>, TRUE, <<T("int")>>, "", <<>>),
  Rule("vb-boolean-type", 9, <<Lit("Boolean")>>, TRUE, <<T("bool")>>, "", <<>>),
  Rule("vb-string-concat", 8, <<Ws, Lit("&"), Ws>>, TRUE, <<T("+")>>, "", <<>>),
  Rule("vb-logical-and", 8, <<Lit("And")>>, TRUE, <<T("&&")>>, "", <<>>),
  Rule("vb-logical-or", 8, <<Lit("Or")>>, TRUE, <<T("||")>>, "", <<>>),
  Rule("vb-logical-not", 8, <<Lit("Not"), Ws>>, TRUE, <<T("!")>>, "", <<>>),
  Rule("vb-msgbox", 7, <<Lit("MsgBox"), Ws, Lit("(")>>, TRUE,
       <<T("MessageBox"), T("."), T("Show"), T("(")>>, "", <<>>),
  Rule("vb-comments", 5, <<Bol, WsCap, Lit("'")>>, TRUE, <<G(1), T("//")>>, "", <<>>),
  Rule("vb-method-with-body", 10,
       <<Cls(Access), Ws, Cls(SubOrFunction), Ws, Word, Ws, Lit("("), Lazy({NL}, 0),
         Lit(")"), Opt(<<Ws, Lit("As"), Ws, Word>>, 1), Ws, Lit(NL), Lazy({}, 0),
         Lit(NL), Lit("End"), Ws, Cls(SubOrFunction)>>, TRUE,
       <<>>, "method", <<>>),
  Rule("vb-event-handler-complete", 10,
       <<Cls({"Private", "Public"}), Ws, Lit("Sub"), Ws, Cls(HandlerNames), Ws,
         Lit("("), Greedy({")"}, 0), Lit(")"), Ws, Lit("Handles"), Ws,
         Greedy({".", NL}, 1), Lit("."), Greedy({".", NL}, 1), Ws, Lit(NL),
         Lazy({}, 0), Lit(NL), Lit("End"), Lit("Sub")>>, TRUE,
       <<>>, "event", <<>>),
  Rule("vb-for-loop-complete", 9,
       <<Lit("For"), Ws, Word, Ws, Lit("As"), Ws, Word, Ws, Lit("="), Ws,
         Lazy({NL}, 1), Ws, Lit("To"), Ws, Lazy({NL}, 1),
         Opt(<<Ws, Lit("Step"), Ws, Lazy({NL}, 1)>>, 1), Ws, Lit(NL),
         Lazy({}, 0), Lit(NL), Lit("Next")>>, TRUE,
       <<>>, "for", <<>>),
  Rule("vb-try-catch", 9,
       <<Lit("Try"), Ws, Lit(NL), Lazy({}, 0), Lit(NL), Lit("Catch"), Ws, Word, Ws,
         Lit("As"), Ws, Word, Ws, Lit(NL), Lazy({}, 0), Lit(NL), Lit("End"),
         Lit("Try")>>, TRUE,
       <<>>, "try", <<>>),
  Rule("vb-property-complete", 9,
       <<Cls({"Private", "Public", "Protected"}), Ws, Lit("Property"), Ws, Word, Ws,
         Lit("("), Lit(")"), Ws, Lit("As"), Ws, Word, Ws, Lit(NL), Ws, Lit("Get"),
         Ws, Lit(NL), Lazy({}, 0), Lit(NL), Ws, Lit("End"), Lit("Get"), Ws, Lit(NL),
         Ws, Lit("Set"), Ws, Lit("("), Greedy({")"}, 1), Lit(")"), Ws, Lit(NL),
         Lazy({}, 0), Lit(NL), Ws, Lit("End"), Lit("Set"), Ws, Lit(NL), Lit("End"),
         Lit("Property")>>, TRUE,
       <<>>, "property", <<>>),
  Rule("vb-sql-command", 8,
       <<Lit("Dim"), Ws, Word, Ws, Lit("As"), Ws, Lit("New"), Ws, Lit("SqlCommand"),
         Ws, Lit("("), Ws, Cls(StrLit), Ws, Lit(","), Ws, Word, Ws, Lit(")")>>, TRUE,
       <<T("using"), T("var"), G(1), T("="), T("new"), T("SqlCommand"), T("("),
         G(2), T(","), G(3), T(")")>>, "", <<>>)
>>

\* Rules a caller can pass to addCustomRule.  The first is the rule of the
\* unit test; the others vary what MigrationRule leaves to the caller: the
\* flags of the pattern, the priority, the id and the conditions.
Cond(type, value) == [type |-> type, value |-> value]

CustomRules == <<
  Rule("custom-test", 5, <<Lit("test")>>, TRUE, <<T("TEST")>>, "", <<>>),
  Rule("custom-first", 10, <<Lit("test")>>, FALSE, <<T("ONCE")>>, "", <<>>),
  Rule("custom-cond", 6, <<Lit("test")>>, TRUE, <<T("COND")>>, "",
       <<Cond("project_type", "WinForms"), Cond("not_contains", "Legacy")>>),
  Rule("vb-dim-declaration", 9, <<Lit("Dim")>>, TRUE, <<T("var")>>, "",
       <<Cond("file_extension", ".vb"), Cond("contains", "Dim")>>)
>>

DataTypes == {"String", "Integer", "Boolean", "Double", "Single", "Long", "Date",
              "Object"}
VbIcons == {"vbInformation", "vbExclamation", "vbCritical", "vbQuestion"}
FormNames == {"Form1"}

\* EnhancedMigrationEngine.initializeEnhancedRules: the rules in declaration
\* order
EnhancedRules == <<
  Rule("enhanced-method-declaration", 100,
       <<Opt(<<Cls(Access)>>, 1), Ws, Cls(SubOrFunction), Ws, Word, Ws, Lit("("),
         Greedy({")"}, 0), Lit(")"), Opt(<<Ws, Lit("As"), Ws, Word>>, 1), Ws>>, TRUE,
       <<>>, "enhanced-method", <<>>),
  Rule("enhanced-dim-declaration", 95,
       <<Lit("Dim"), Ws, Word, Ws, Lit("As"), Ws, Word,
         Opt(<<Ws, Lit("="), Ws, Lazy({NL}, 1)>>, 1), Eol>>, TRUE,
       <<>>, "enhanced-dim", <<>>),
  Rule("enhanced-if-then-else", 90,
       <<Lit("If"), Ws, Lazy({NL}, 1), Ws, Lit("Then"), Ws, Lit(NL), Lazy({}, 0),
         Ahead(<< <<Lit(NL), Ws, Lit("Else")>>, <<Lit(NL), Ws, Lit("End"), Lit("If")>> >>)>>,
       TRUE,
       <<T("if"), T("("), G(1), T(")"), T(NL), T("{"), T(NL), G(2), T(NL), T("}")>>,
       "", <<>>),
  Rule("enhanced-msgbox", 85,
       <<Lit("MsgBox"), Ws, Cls(StrLit), Ws, Lit(","), Ws, Cls(VbIcons)>>, TRUE,
       <<>>, "enhanced-msgbox", <<>>),
  Rule("enhanced-string-concat", 80,
       <<Operand, Ws, Lit("&"), Ws, Operand>>, TRUE,
       <<G(1), T("+"), G(2)>>, "", <<>>),
  Rule("enhanced-logical-operators", 80,
       <<Cls({"And", "Or", "Not"})>>, TRUE, <<>>, "enhanced-logical", <<>>),
  Rule("enhanced-data-types", 75,
       <<Cls(DataTypes)>>, TRUE, <<>>, "enhanced-type", <<>>),
  Rule("enhanced-database-ops", 70,
       <<Lit("Set"), Ws, Word, Ws, Lit("="), Ws, Lit("OpenDatabase"), Ws, Lit("("),
         Ws, Cls(StrLit), Ws, Lit(")")>>, TRUE,
       <<T("using"), T("var"), G(1), T("="), T("new"), T("OleDbConnection"), T("("),
         T("\"Provider=Microsoft.ACE.OLEDB.12.0;Data Source="), G(2), T("\""),
         T(")")>>, "", <<>>),
  Rule("enhanced-exit-statements", 65,
       <<Lit("Exit"), Ws, Cls(SubOrFunction)>>, TRUE, <<T("return")>>, "", <<>>),
  Rule("enhanced-form-operations", 60,
       <<Cls(FormNames), Lit("."), Lit("Show")>>, TRUE, <<>>, "enhanced-form", <<>>),
  Rule("enhanced-me-reference", 55,
       <<Lit("Me"), Lit(".")>>, TRUE, <<T("this"), T(".")>>, "", <<>>),
  Rule("enhanced-comments", 20,
       <<Bol, WsCap, Lit("'")>>, TRUE, <<G(1), T("//")>>, "", <<>>)
>>

RuleTable == BuiltinRules \o CustomRules \o EnhancedRules
NBuiltin == Len(BuiltinRules)
NCustom == Len(CustomRules)
CustomIx == (NBuiltin + 1)..(NBuiltin + NCustom)

\* a registry entry: ix names the rule of RuleTable, seq is the stamp of its
\* declaration or addition
Entry(ix, seq) == [ix |-> ix, seq |-> seq]
Def(e) == RuleTable[e.ix]
Prio(e) == Def(e).priority

----------------------------------------------------------------------------
(* Array.prototype.sort((a, b) => b.priority - a.priority): stable *)

\* The sort of ECMAScript 2019 is stable: an element moves in front of
\* another one only when the comparator (b.priority - a.priority) puts it
\* first, and elements that compare equal keep their order.
\* the elements of rs by descending priority, each group of equal priority
\* in the order it has in rs
RECURSIVE SortByPriority(_, _)
SortByPriority(rs, ps) ==
  IF ps = {} THEN <<>>
  ELSE LET p == Max(ps)
       IN SelectSeq(rs, LAMBDA e : Prio(e) = p) \o SortByPriority(rs, ps \ {p})

\* the comparator with its operands swapped: (a, b) => a.priority - b.priority
RECURSIVE SortByPriorityAscending(_, _)
SortByPriorityAscending(rs, ps) ==
  IF ps = {} THEN <<>>
  ELSE LET p == Min(ps)
       IN SelectSeq(rs, LAMBDA e : Prio(e) = p) \o SortByPriorityAscending(rs, ps \ {p})

SortRulesAscending(rs) ==
  SortByPriorityAscending(rs, {Prio(rs[i]) : i \in 1..Len(rs)})

\* a sort that is not stable: elements that compare equal change places
Reverse(rs) == [k \in 1..Len(rs) |-> rs[Len(rs) + 1 - k]]

SortRulesUnstable(rs) ==
  SortByPriority(Reverse(rs), {Prio(rs[i]) : i \in 1..Len(rs)})

SortRules(rs) == SortByPriority(rs, {Prio(rs[i]) : i \in 1..Len(rs)})

----------------------------------------------------------------------------
(* Helpers of the baseline engine *)

\* String.prototype.includes on the file content
Includes(t, v) == \E i \in 1..Len(t) : t[i] = v

\* String.prototype.endsWith on the file path; a path is its extension here
EndsWith(path, v) == path = v

\* vbBody.trim() === ''
IsBlank(t) == \A i \in 1..Len(t) : t[i] \in Space

ShouldApplyRule(rule, context) ==
  \A k \in 1..Len(rule.conds) :
    LET c == rule.conds[k] IN
    CASE c.type = "contains" -> Includes(context.fileContent, c.value)
      [] c.type = "not_contains" -> ~Includes(context.fileContent, c.value)
      [] c.type = "file_extension" -> EndsWith(context.filePath, c.value)
      [] c.type = "project_type" -> context.projectType = c.value

MapAccessibility(a) ==
  CASE a = "Private" -> "private" [] a = "Public" -> "public"
    [] a = "Protected" -> "protected" [] a = "Friend" -> "internal"
    [] OTHER -> "private"

MapDataType(ty) ==
  CASE ty = "Integer" -> "int" [] ty = "String" -> "string" [] ty = "Boolean" -> "bool"
    [] ty = "Double" -> "double" [] ty = "Single" -> "float" [] ty = "Long" -> "long"
    [] ty = "Decimal" -> "decimal" [] ty = "Date" -> "DateTime"
    [] ty = "Object" -> "object" [] OTHER -> ty

\* one parameter: the first (\w+)\s+As\s+(\w+) in it gives "type name"
RECURSIVE ConvertParam(_, _)
ConvertParam(p, i) ==
  IF i + 2 > Len(p) THEN p
  ELSE IF IsWord(p[i]) /\ p[i + 1] = "As" /\ IsWord(p[i + 2])
    THEN <<MapDataType(p[i + 2]), p[i]>>
  ELSE ConvertParam(p, i + 1)

\* vbParams.split(',').map(...).join(', ')
RECURSIVE ConvertParameters(_)
ConvertParameters(ps) ==
  IF IsBlank(ps) THEN <<>>
  ELSE LET n == RunNot(ps, 1, {","}) IN
       IF n = Len(ps) THEN ConvertParam(ps, 1)
       ELSE ConvertParam(SubSeq(ps, 1, n), 1) \o <<",">>
            \o (IF n + 1 = Len(ps) THEN <<>>
                ELSE ConvertParameters(SubSeq(ps, n + 2, Len(ps))))

\* lines.map(line => (line.trim() ? `    ${line}` : line)).join('\n')
RECURSIVE IndentLines(_)
IndentLines(t) ==
  LET n == RunNot(t, 1, {NL})
      line == SubSeq(t, 1, n)
      ind == IF IsBlank(line) THEN line ELSE <<BL>> \o line
  IN IF n >= Len(t) THEN ind
     ELSE ind \o <<NL>> \o IndentLines(SubSeq(t, n + 2, Len(t)))

\* fill a literal replacement template with the captured groups
RECURSIVE Fill(_, _)
Fill(repl, caps) ==
  IF Len(repl) = 0 THEN <<>>
  ELSE (IF Head(repl).g = 0 THEN <<Head(repl).v>> ELSE caps[Head(repl).g])
       \o Fill(Tail(repl), caps)

PlaceholderLogic == "// TODO: Implement method logic"
PlaceholderBody == "// TODO: Implement method body"

----------------------------------------------------------------------------
(* MigrationRulesEngine: applyRules and what it calls.  Every operator
   returns the text together with `by`, the stamps of the rules that changed
   text in the applyRules calls nested in it. *)

Context(path, content, kind) ==
  [filePath |-> path, fileContent |-> content, projectType |-> kind]

RECURSIVE ApplyRulesFrom(_, _, _, _, _)
RECURSIVE ApplyRules(_, _, _)
RECURSIVE ReplaceFrom(_, _, _, _)

\* An argument of a replacement function: a captured string, or the number
\* replace() passes after the captures (the offset of the match).
Str(s) == [isString |-> TRUE, s |-> s, n |-> 0]
Num(n) == [isString |-> FALSE, s |-> <<>>, n |-> n]

\* What `const [, a, b, ...] = groups` binds: groups holds the captures and
\* then the offset, and the pattern skips groups[0], so the k-th name is
\* bound to capture k + 1, and the name after the last capture to the offset.
Groups(c, offset) == [k \in 1..Len(c) |-> Str(c[k])] \o <<Num(offset)>>

\* the result r of the nested applyRules call, its lines indented
Indented(r) == [text |-> IndentLines(r.out), by |-> r.by, raised |-> r.raised]

\* convertMethodBody.  A number has no trim: the call raises a TypeError
\* unless the number is 0, which `!vbBody` takes for an empty body.
ConvertMethodBody(rs, vbBody) ==
  IF ~vbBody.isString
    THEN [text |-> <<BL, PlaceholderLogic>>, by |-> {}, raised |-> vbBody.n # 0]
  ELSE IF IsBlank(vbBody.s)
    THEN [text |-> <<BL, PlaceholderLogic>>, by |-> {}, raised |-> FALSE]
  ELSE Indented(ApplyRules(rs, vbBody.s, Context("", vbBody.s, "WinForms")))

\* map[vbAccessibility] || 'private' and map[vbType] || vbType on a string
\* of any length
MapAccessibilityOf(s) == IF Len(s) = 1 THEN MapAccessibility(s[1]) ELSE "private"
MapDataTypeOf(s) == IF Len(s) = 1 THEN <<MapDataType(s[1])>> ELSE s

\* the part of a handler's name that (\w+)_(\w+) captures second
EventOf(name) == CASE name = "btn_Click" -> "Click"

\* a template literal with one converted body, and with two: the bodies
\* are converted in this order, and a throw of either is a throw of the
\* replacement function
Template(before, csBody, after) ==
  [text |-> before \o csBody.text \o after, by |-> csBody.by,
   raised |-> csBody.raised]

Template2(before, csBody1, between, csBody2, after) ==
  [text |-> before \o csBody1.text \o between \o csBody2.text \o after,
   by |-> csBody1.by \cup csBody2.by,
   raised |-> csBody1.raised \/ csBody2.raised]

\* the replacement functions of the rules that carry one
MethodReplacement(rs, c, offset) ==
  LET asClause == IF c[5] = <<>> THEN <<>> ELSE <<"As">> \o c[5]
      groups == Groups(<<c[1], c[2], c[3], c[4], asClause, c[5], c[6], c[7]>>, offset)
      accessibility == groups[2].s
      methodType == groups[3].s
      methodName == groups[4].s
      parameters == groups[5].s
      returnType == groups[7].s
      body == groups[8]
      csReturnType == IF methodType = <<"Function">>
                        THEN (IF returnType = <<>> THEN <<"object">> ELSE returnType)
                        ELSE <<"void">>
  IN Template(<<MapAccessibilityOf(accessibility)>> \o csReturnType \o methodName
              \o <<"(">> \o ConvertParameters(parameters) \o <<")", NL, "{", NL>>,
              ConvertMethodBody(rs, body), <<NL, "}">>)

EventReplacement(rs, c, offset) ==
  LET groups == Groups(<<c[1], c[2], <<EventOf(c[2][1])>>, c[3], c[4], c[5], c[6]>>,
                       offset)
      controlName == groups[3].s
      eventName == groups[4].s
      body == groups[8]
  IN Template(<<"private", "void">> \o controlName \o <<"_">> \o eventName
              \o <<"(", "object", "sender", ",", "EventArgs", "e", ")", NL, "{", NL>>,
              ConvertMethodBody(rs, body), <<NL, "}">>)

ForReplacement(rs, c, offset) ==
  LET groups == Groups(c, offset)
      variable == groups[2].s
      type == groups[3].s
      start == groups[4].s
      end == IF c[5] = <<>> THEN <<"undefined">> ELSE groups[5].s
      step == groups[6].s
      body == groups[7]
      csStep == IF step = <<>> THEN <<"++">> ELSE <<"+=">> \o step
  IN Template(<<"for", "(">> \o MapDataTypeOf(type) \o variable \o <<"=">> \o start
              \o <<";">> \o variable \o <<"<=">> \o end \o <<";">> \o variable
              \o csStep \o <<")", NL, "{", NL>>,
              ConvertMethodBody(rs, body), <<NL, "}">>)

TryReplacement(rs, c, offset) ==
  LET groups == Groups(c, offset)
      tryBody == groups[2]
      exceptionVar == groups[3].s
      exceptionType == groups[4].s
      catchBody == groups[5]
  IN Template2(<<"try", NL, "{", NL>>, ConvertMethodBody(rs, tryBody),
               <<NL, "}", NL, "catch", "(">> \o exceptionType \o exceptionVar
               \o <<")", NL, "{", NL>>,
               ConvertMethodBody(rs, catchBody), <<NL, "}">>)

PropertyReplacement(rs, c, offset) ==
  LET groups == Groups(c, offset)
      accessibility == groups[2].s
      propName == groups[3].s
      propType == groups[4].s
      getterBody == groups[5]
      setterBody == groups[7]
  IN Template2(<<MapAccessibilityOf(accessibility)>> \o MapDataTypeOf(propType)
               \o propName \o <<NL, "{", NL, BL, "get", NL, BL, "{", NL>>,
               ConvertMethodBody(rs, getterBody),
               <<NL, BL, "}", NL, BL, "set", NL, BL, "{", NL>>,
               ConvertMethodBody(rs, setterBody), <<NL, BL, "}", NL, "}">>)

\* EnhancedMigrationEngine.mapDataType
EnhancedMapDataType(ty) ==
  CASE ty = "String" -> "string" [] ty = "Integer" -> "int" [] ty = "Boolean" -> "bool"
    [] ty = "Double" -> "double" [] ty = "Single" -> "float" [] ty = "Long" -> "long"
    [] ty = "Date" -> "DateTime" [] ty = "Object" -> "object" [] OTHER -> ty

\* EnhancedMigrationEngine.getDefaultValue; <<>> stands for null
GetDefaultValue(csType) ==
  CASE csType = "string" -> <<"\"\"">> [] csType = "int" -> <<"0">>
    [] csType = "bool" -> <<"false">> [] csType = "double" -> <<"0.0">>
    [] csType = "float" -> <<"0.0f">> [] OTHER -> <<>>

MapMessageBoxIcon(vbIcon) ==
  CASE vbIcon = "vbInformation" -> "Information" [] vbIcon = "vbExclamation" -> "Warning"
    [] vbIcon = "vbCritical" -> "Error" [] vbIcon = "vbQuestion" -> "Question"
    [] OTHER -> "Information"

\* one parameter of EnhancedMigrationEngine.convertParameters
RECURSIVE EnhancedConvertParam(_, _)
EnhancedConvertParam(p, i) ==
  IF i + 2 > Len(p) THEN p
  ELSE IF IsWord(p[i]) /\ p[i + 1] = "As" /\ IsWord(p[i + 2])
    THEN <<EnhancedMapDataType(p[i + 2]), p[i]>>
  ELSE EnhancedConvertParam(p, i + 1)

RECURSIVE EnhancedConvertParameters(_)
EnhancedConvertParameters(ps) ==
  IF IsBlank(ps) THEN <<>>
  ELSE LET n == RunNot(ps, 1, {","}) IN
       IF n = Len(ps) THEN EnhancedConvertParam(ps, 1)
       ELSE EnhancedConvertParam(SubSeq(ps, 1, n), 1) \o <<",">>
            \o (IF n + 1 = Len(ps) THEN <<>>
                ELSE EnhancedConvertParameters(SubSeq(ps, n + 2, Len(ps))))

\* the replacement functions of the enhanced rules
EnhancedMethodReplacement(c) ==
  LET csAccessibility == MapAccessibility(IF c[1] = <<>> THEN "Private" ELSE c[1][1])
      csReturnType == IF c[2] = <<"Function">>
                        THEN EnhancedMapDataType(IF c[5] = <<>> THEN "object" ELSE c[5][1])
                        ELSE "void"
      methodName == c[3][1]
  IN <<csAccessibility, csReturnType, methodName, "(">>
     \o (IF methodName \in HandlerNames
           THEN <<"object", "sender", ",", "EventArgs", "e">>
           ELSE EnhancedConvertParameters(c[4]))
     \o <<")">>

EnhancedDimReplacement(c) ==
  LET csType == EnhancedMapDataType(c[2][1])
      defaultValue == GetDefaultValue(csType)
  IN IF c[3] # <<>> THEN <<csType>> \o c[1] \o <<"=">> \o c[3]
     ELSE <<csType>> \o c[1]
          \o (IF defaultValue # <<>> THEN <<"=">> \o defaultValue ELSE <<>>)

EnhancedMsgBoxReplacement(c) ==
  <<"MessageBox", ".", "Show", "(">> \o c[1]
  \o <<",", "\"Mensaje\"", ",", "MessageBoxButtons", ".", "OK", ",", "MessageBoxIcon",
       ".", MapMessageBoxIcon(c[2][1]), ")">>

EnhancedLogicalReplacement(c) ==
  CASE c[1] = <<"And">> -> <<"&&">> [] c[1] = <<"Or">> -> <<"||">>
    [] c[1] = <<"Not">> -> <<"!">> [] OTHER -> c[1]

\* formName.toLowerCase()
ToLowerCase(name) == CASE name = "Form1" -> "form1" [] OTHER -> name

EnhancedFormReplacement(c) ==
  <<"var", ToLowerCase(c[1][1]), "=", "new", c[1][1], "(", ")", ";",
    ToLowerCase(c[1][1]), ".", "Show", "(", ")">>

Plain(text) == [text |-> text, by |-> {}, raised |-> FALSE]

\* what replace() puts in place of one match with captures c at the offset
Replacement(rs, rule, c, offset) ==
  CASE rule.fn = "method" -> MethodReplacement(rs, c, offset)
    [] rule.fn = "event" -> EventReplacement(rs, c, offset)
    [] rule.fn = "for" -> ForReplacement(rs, c, offset)
    [] rule.fn = "try" -> TryReplacement(rs, c, offset)
    [] rule.fn = "property" -> PropertyReplacement(rs, c, offset)
    [] OTHER -> Plain(Fill(rule.repl, c))

\* the least element of a set of positions, 0 when there is none
First(S) == IF S = {} THEN 0 ELSE Min(S)

\* the matches of the pattern that span at least one token
Found(m, j) == m.ok /\ m.end > j

\* position of the leftmost match of the pattern from token i on, 0 if none
NextMatch(pattern, t, i) ==
  First({j \in i..Len(t) : Found(Match(pattern, t, j, <<>>), j)})

\* the number of non-overlapping matches of the pattern in t from token i on
RECURSIVE CountMatches(_, _, _)
CountFrom(pattern, t, j) ==
  IF j = 0 THEN 0
  ELSE 1 + CountMatches(pattern, t, Match(pattern, t, j, <<>>).end)

CountMatches(pattern, t, i) == CountFrom(pattern, t, NextMatch(pattern, t, i))

\* the text before a match, what replaces the match, and the rest replaced
Spliced(before, rep, tail) ==
  [text |-> before \o rep.text \o tail.text, by |-> rep.by \cup tail.by,
   n |-> 1 + tail.n, m |-> 1 + tail.m, raised |-> rep.raised \/ tail.raised]

\* the text left alone: after the last match, or after the first one when
\* the pattern has no g flag (count: the matches that text holds)
Rest(text, count) == [text |-> text, by |-> {}, n |-> 0, m |-> count, raised |-> FALSE]

\* content.replace(rule.pattern, rule.replacement) from token i on: every
\* match when the pattern carries the g flag, the first match when it does
\* not.  n counts the matches replaced, m the matches there were; raised
\* tells that a replacement function threw.
ReplaceMatch(rs, rule, t, i, j, m) ==
  Spliced(SubSeq(t, i, j - 1), Replacement(rs, rule, m.caps, j - 1),
          IF rule.global THEN ReplaceFrom(rs, rule, t, m.end)
          ELSE Rest(SubSeq(t, m.end, Len(t)), CountMatches(rule.pattern, t, m.end)))

ReplaceAt(rs, rule, t, i, j) ==
  IF j = 0 THEN Rest(SubSeq(t, i, Len(t)), 0)
  ELSE ReplaceMatch(rs, rule, t, i, j, Match(rule.pattern, t, j, <<>>))

ReplaceFrom(rs, rule, t, i) == ReplaceAt(rs, rule, t, i, NextMatch(rule.pattern, t, i))

\* applyRule
ApplyRule(rs, rule, content) == ReplaceFrom(rs, rule, content, 1)

\* What one turn of the loop of applyRules leaves, r being what applyRule
\* returned for the rule e.  steps records, for every rule applied: the rule
\* (ix, seq), the rules whose output its input holds (saw), the matches of
\* its pattern in its input (matches) and the matches it replaced (replaced).
\* Once a replacement function has thrown, the loop is left and there is no
\* result.
Applied(e, st, r) ==
  IF r.raised THEN [st EXCEPT !.raised = TRUE]
  ELSE [out |-> r.text,
        by |-> st.by \cup r.by \cup (IF r.text # st.out THEN {e.seq} ELSE {}),
        steps |-> Append(st.steps,
                    [ix |-> e.ix, seq |-> e.seq, saw |-> st.by,
                     matches |-> r.m, replaced |-> r.n]),
        raised |-> FALSE]

\* one turn of the loop of applyRules, for the rule at position k of the
\* sorted rules
ApplyOne(rs, k, st, context) ==
  IF ~st.raised /\ ShouldApplyRule(Def(rs[k]), context)
    THEN Applied(rs[k], st, ApplyRule(rs, Def(rs[k]), st.out))
  ELSE st

\* the loop of applyRules over the rules at positions lo..hi, in order.  The
\* range is split in halves, and the first half is evaluated (Len) before
\* the second half is entered, which keeps the evaluation shallow.
ApplyRulesFrom(rs, lo, hi, st, context) ==
  IF lo > hi THEN st
  ELSE IF lo = hi THEN ApplyOne(rs, lo, st, context)
  ELSE LET mid == (lo + hi) \div 2
           left == ApplyRulesFrom(rs, lo, mid, st, context)
       IN IF Len(left.out) >= 0 THEN ApplyRulesFrom(rs, mid + 1, hi, left, context)
          ELSE left

\* applyRules; the sort is in place, so the registry is left as SortRules(rs)
ApplyRules(rs, content, context) ==
  LET sortedRules == SortRules(rs)
  IN ApplyRulesFrom(sortedRules, 1, Len(sortedRules),
                    [out |-> content, by |-> {}, steps |-> <<>>, raised |-> FALSE],
                    context)

----------------------------------------------------------------------------
(* EnhancedMigrationEngine *)

\* what replace() puts in place of one match with captures c, for the rules
\* of the enhanced engine and for literal templates
EnhancedReplacement(rule, c) ==
  CASE rule.fn = "enhanced-method" -> EnhancedMethodReplacement(c)
    [] rule.fn = "enhanced-dim" -> EnhancedDimReplacement(c)
    [] rule.fn = "enhanced-msgbox" -> EnhancedMsgBoxReplacement(c)
    [] rule.fn = "enhanced-logical" -> EnhancedLogicalReplacement(c)
    [] rule.fn = "enhanced-type" -> <<EnhancedMapDataType(c[1][1])>>
    [] rule.fn = "enhanced-form" -> EnhancedFormReplacement(c)
    [] OTHER -> Fill(rule.repl, c)

\* result.replace(rule.pattern, rule.replacement) from token i on, with a
\* replacement that calls no engine (every such pattern carries the g flag)
RECURSIVE EnhancedReplaceFrom(_, _, _)
EnhancedReplaceMatch(rule, t, i, j, m) ==
  SubSeq(t, i, j - 1) \o EnhancedReplacement(rule, m.caps)
  \o EnhancedReplaceFrom(rule, t, m.end)

EnhancedReplaceAt(rule, t, i, j) ==
  IF j = 0 THEN SubSeq(t, i, Len(t))
  ELSE EnhancedReplaceMatch(rule, t, i, j, Match(rule.pattern, t, j, <<>>))

EnhancedReplaceFrom(rule, t, i) ==
  EnhancedReplaceAt(rule, t, i, NextMatch(rule.pattern, t, i))

\* content.replace(pattern, replacement) with a g pattern and a template
Replace(content, pattern, repl) ==
  EnhancedReplaceFrom(Rule("", 0, pattern, TRUE, repl, "", <<>>), content, 1)

\* preprocessContent
PreprocessContent(content) ==
  LET result == Replace(content, <<Lit(NL), Ws, Lit(NL), Ws, Lit(NL)>>, <<T(NL), T(NL)>>)
  IN Replace(result, <<Bol, Ws1, Dollar>>, <<>>)

\* result.split('\n')
RECURSIVE Split(_)
Split(t) ==
  LET n == RunNot(t, 1, {NL}) IN
  IF n >= Len(t) THEN <<t>>
  ELSE <<SubSeq(t, 1, n)>> \o Split(SubSeq(t, n + 2, Len(t)))

\* lines.join('\n')
RECURSIVE Join(_)
Join(lines) ==
  IF Len(lines) = 0 THEN <<>>
  ELSE IF Len(lines) = 1 THEN lines[1]
  ELSE lines[1] \o <<NL>> \o Join(Tail(lines))

\* line.trim()
RECURSIVE Trim(_)
Trim(line) ==
  IF Len(line) = 0 THEN line
  ELSE IF Head(line) \in Space THEN Trim(Tail(line))
  ELSE IF line[Len(line)] \in Space THEN Trim(SubSeq(line, 1, Len(line) - 1))
  ELSE line

\* the semicolons postProcessContent adds to a trimmed line
AddSemicolon(line) ==
  LET n == Len(line)
      endsWith == line[n] = ";"
      declares == /\ n >= 3 /\ line[1] \in {"string", "int", "bool", "var"}
                  /\ IsWord(line[2]) /\ line[3] = "="
      assigns == /\ n >= 2 /\ IsWord(line[1]) /\ line[2] = "="
                 /\ ~Includes(line, "{") /\ ~Includes(line, "}")
      returns == \/ line[1] = "return"
                 \/ n >= 3 /\ SubSeq(line, 1, 3) = <<"MessageBox", ".", "Show">>
  IN IF ~endsWith /\ (declares \/ assigns \/ returns) THEN Append(line, ";") ELSE line

\* postProcessContent
PostProcessContent(content) ==
  LET r1 == Replace(content, <<Lit("End"), Lit("if")>>, <<>>)
      r2 == Replace(r1, <<Lit("End"), Lit("If")>>, <<>>)
      r3 == Replace(r2, <<Lit("End"), Lit("Sub")>>, <<>>)
      r4 == Replace(r3, <<Lit("End"), Lit("Function")>>, <<>>)
      lines == Split(r4)
      trimmed == [k \in 1..Len(lines) |-> Trim(lines[k])]
      kept == SelectSeq(trimmed, LAMBDA line : Len(line) > 0)
      cleanLines == [k \in 1..Len(kept) |-> AddSemicolon(kept[k])]
  IN Join(cleanLines)

\* the postProcess of enhanced-if-then-else
IfThenElsePostProcess(content) ==
  LET ahead == Ahead(<< <<Lit(NL), Ws, Lit("Else")>>,
                        <<Lit(NL), Ws, Lit("End"), Lit("If")>> >>)
      c1 == Replace(content,
                    <<Lit("Else"), Lit("If"), Ws, Lazy({NL}, 1), Ws, Lit("Then"), Ws,
                      Lit(NL), Lazy({}, 0), ahead>>,
                    <<T("else"), T("if"), T("("), G(1), T(")"), T(NL), T("{"), T(NL),
                      G(2), T(NL), T("}")>>)
      c2 == Replace(c1,
                    <<Lit("Else"), Ws, Lit(NL), Lazy({}, 0),
                      Ahead(<< <<Lit(NL), Ws, Lit("End"), Lit("If")>> >>)>>,
                    <<T("else"), T(NL), T("{"), T(NL), G(1), T(NL), T("}")>>)
  IN Replace(c2, <<Lit("End"), Lit("If")>>, <<>>)

\* the registry of the enhanced engine, as its constructor leaves it
EnhancedInitRules ==
  [k \in 1..Len(EnhancedRules) |-> Entry(NBuiltin + NCustom + k, k)]

\* one turn of the loop of migrateVBtoCSharp
EnhancedApplyOne(rule, result) ==
  IF rule.id = "enhanced-if-then-else"
    THEN IfThenElsePostProcess(EnhancedReplaceFrom(rule, result, 1))
  ELSE EnhancedReplaceFrom(rule, result, 1)

RECURSIVE EnhancedApplyFrom(_, _, _, _)
EnhancedApplyFrom(rs, lo, hi, result) ==
  IF lo > hi THEN result
  ELSE IF lo = hi THEN EnhancedApplyOne(Def(rs[lo]), result)
  ELSE LET mid == (lo + hi) \div 2
           left == EnhancedApplyFrom(rs, lo, mid, result)
       IN IF Len(left) >= 0 THEN EnhancedApplyFrom(rs, mid + 1, hi, left) ELSE left

\* migrateVBtoCSharp.  The sort is in place; the rules are declared in
\* descending priority, so it leaves the registry of this engine as it is.
MigrateVBtoCSharp(vbContent) ==
  LET sortedRules == SortRules(EnhancedInitRules)
      result == EnhancedApplyFrom(sortedRules, 1, Len(sortedRules),
                                  PreprocessContent(vbContent))
  IN PostProcessContent(result)

----------------------------------------------------------------------------
(* The emit paths: CSharpGenerator and ModuleMigrator *)

MaxStack == 2    \* nested calls of convertVBCodeToCSharp the stack has room for

\* The characters of a text: those of its tokens, and one blank between two
\* tokens where C# and VB put one.
BlankBetween(a, b) ==
  /\ a \notin Space \cup {"(", ".", "!"}
  /\ b \notin Space \cup {")", ",", ";", "."}
  /\ (b = "(" => a \in {"if", "for", "catch", "=", "+", "&", "&&", "||", ","})

RECURSIVE CharLen(_)
CharLen(t) ==
  IF Len(t) = 0 THEN 0
  ELSE Len(Head(t))
       + (IF Len(t) > 1 /\ BlankBetween(t[1], t[2]) THEN 1 ELSE 0)
       + CharLen(Tail(t))

\* applyBasicConversions, for the words the texts of this model hold: the
\* other conversions of the list rewrite words that occur in none of them
ApplyBasicConversions(vbCode) ==
  LET c1 == Replace(vbCode, <<Lit("Dim"), Ws, Word, Ws, Dollar>>, <<T("var"), G(1)>>)
      c2 == Replace(c1, <<Lit("Exit"), Ws, Lit("Sub")>>, <<T("return"), T(";")>>)
  IN Replace(c2, <<Lit("Exit"), Ws, Lit("Function")>>, <<T("return"), T(";")>>)

\* What a call gives: its text when it returns, and the registry of the
\* generator's MigrationRulesEngine as the call leaves it.  A call that does
\* not return (the stack is exhausted) has returns = FALSE.
Result(text, returns, rs) == [text |-> text, returns |-> returns, rules |-> rs]

RECURSIVE MigrateVBCodeWithEnhancedEngine(_, _, _, _)
RECURSIVE ConvertVBCodeToCSharp(_, _, _)

\* what convertVBCodeToCSharp makes of r, the result of the engines
Migrated(vbCode, r) ==
  IF r.returns
    THEN Result(<<"// Migrated from VB.NET", NL>>
                \o (IF CharLen(r.text) < 10 THEN ApplyBasicConversions(vbCode)
                    ELSE r.text),
                TRUE, r.rules)
  ELSE r

\* CSharpGenerator.convertVBCodeToCSharp, at depth `depth` of the stack
ConvertVBCodeToCSharp(rs, vbCode, depth) ==
  IF depth > MaxStack THEN Result(<<>>, FALSE, rs)
  ELSE IF vbCode = <<>> THEN Result(<<PlaceholderBody>>, TRUE, rs)
  ELSE Migrated(vbCode,
                MigrateVBCodeWithEnhancedEngine(rs, vbCode, "general.vb", depth + 1))

\* the try block of migrateVBCodeWithEnhancedEngine: the enhanced engine is
\* asked first, the baseline engine (whose applyRules sorts the registry)
\* only when the enhanced result is not taken
Tried(rs, vbCode, depth, enhancedResult, originalResult) ==
  IF CharLen(enhancedResult) > 10 /\ enhancedResult # vbCode
    THEN Result(enhancedResult, TRUE, rs)
  ELSE IF originalResult.raised
    THEN Result(<<>>, FALSE, SortRules(rs))
  ELSE IF originalResult.out = vbCode
    THEN ConvertVBCodeToCSharp(SortRules(rs), vbCode, depth + 1)
  ELSE Result(originalResult.out, TRUE, SortRules(rs))

\* catch (error): the conversion is entered once more
Caught(tried, vbCode, depth) ==
  IF tried.returns THEN tried
  ELSE ConvertVBCodeToCSharp(tried.rules, vbCode, depth + 1)

\* CSharpGenerator.migrateVBCodeWithEnhancedEngine
MigrateVBCodeWithEnhancedEngine(rs, vbCode, filePath, depth) ==
  IF depth > MaxStack THEN Result(<<>>, FALSE, rs)
  ELSE IF IsBlank(vbCode) THEN Result(<<PlaceholderLogic>>, TRUE, rs)
  ELSE Caught(Tried(rs, vbCode, depth, MigrateVBtoCSharp(vbCode),
                    ApplyRules(rs, vbCode, Context(filePath, vbCode, "WinForms"))),
              vbCode, depth)

\* CSharpGenerator.convertVBMethodToCSharp: the body of the C# method
ConvertVBMethodToCSharp(rs, body) ==
  IF ~IsBlank(body) THEN MigrateVBCodeWithEnhancedEngine(rs, body, "Run.vb", 1)
  ELSE Result(<<PlaceholderBody>>, TRUE, rs)

\* ModuleMigrator.migrateMethodToService: the method of the service class
MigrateMethodToService(body) ==
  <<"public", "void", "RunAsync", "(", ")", NL, BL, "{", NL, BL>>
  \o MigrateVBtoCSharp(body) \o <<NL, BL, "}">>

\* ModuleMigrator.migrateMeTODo: the method of the domain entity
MigrateMeTODo(body) ==
  <<"public", "void", "Run", "(", ")", NL, BL, "{", NL, BL>>
  \o MigrateVBtoCSharp(body) \o <<NL, BL, "}">>

----------------------------------------------------------------------------
(* The engine as a state machine *)

MaxAdds == 2     \* custom rules added in one run

MethodText ==
  <<"Public", "Sub", "Run", "(", ")", NL, "x", NL, "End", "Sub">>

TryText ==
  <<"Try", NL, "x", NL, "Catch", "test", "As", "Exception", NL, "y", NL, "End", "Try">>

\* an If block: `If x > 5 Then`, one statement, `End If`
IfText == <<"If", "x", ">", "5", "Then", NL, "y", NL, "End", "If">>

\* the (text, context) pairs applyRules is called with
Calls == {
  [text |-> IfText, context |-> Context(".vb", IfText, "WinForms")],
  [text |-> <<>>, context |-> Context(".vb", <<>>, "WinForms")],
  [text |-> <<"Dim", "nombre", "As", "String">>,
   context |-> Context(".vb", <<"Dim", "nombre", "As", "String">>, "WinForms")],
  [text |-> <<"test", "test">>,
   context |-> Context(".bas", <<"test", "test">>, "WinForms")],
  [text |-> <<"Dim", "x", "As", "New", "T", "(", ")">>,
   context |-> Context(".vb", <<"Dim", "x", "As", "New", "T", "(", ")">>, "WinForms")],
  [text |-> TryText,
   context |-> Context(".vb", <<"'", "Legacy", NL>> \o TryText, "Console")],
  [text |-> <<"x", NL>> \o TryText,
   context |-> Context(".vb", <<"x", NL>> \o TryText, "WinForms")]
}

RemovableIds == {"vb-dim-declaration", "custom-test", "no-such-rule"}

NoCall == [done |-> FALSE, first |-> TRUE, text |-> <<>>, context |-> Context("", <<>>, ""),
           out |-> <<>>, by |-> {}, steps |-> <<>>, before |-> <<>>,
           raised |-> FALSE]
NoMemo == [done |-> FALSE, text |-> <<>>, context |-> Context("", <<>>, ""),
           out |-> <<>>, raised |-> FALSE]
NoEmit == [done |-> FALSE, path |-> "", body |-> <<>>, out |-> <<>>, returns |-> TRUE]
NoConv == [done |-> FALSE, engine |-> "", again |-> FALSE, text |-> <<>>,
           out |-> <<>>, raised |-> FALSE]

----------------------------------------------------------------------------
(* ModuleMigrator.migrateModule: one analysed module (an entity) is routed to
   the files of the target architecture, and the files are written under the
   output directory.  A path is the sequence of its parts; the content of a
   file is named by the method that generates it and the analysis it is
   generated from. *)

MaxRuns == 2        \* migrateModule calls on one output directory
MaxMigrations == 1  \* performMigration calls on one output path

\* VBModuleAnalysis, as far as it is read: the lengths of the businessLogic
\* lists and of events, the bodies of the methods, and whether a variable
\* has a String, Integer or Date type
Analysis(baseName, ext, moduleType, databaseOperations, calculations, validations, methods) ==
  [fileName |-> <<baseName, ext>>, moduleType |-> moduleType,
   databaseOperations |-> databaseOperations, calculations |-> calculations,
   validations |-> validations, methods |-> methods, events |-> 0,
   dataVariables |-> FALSE]

\* path.basename(analysis.fileName, path.extname(analysis.fileName))
BaseName(fileName) == fileName[1]

BusinessWords == {"Calculate", "Validate", "Process", "If", "Select"}

\* isBusinessLogicMethod: the body includes one of the words
IsBusinessLogicMethod(body) == \E k \in 1..Len(body) : body[k] \in BusinessWords

HasBusinessLogic(analysis) ==
  \/ analysis.calculations > 0
  \/ analysis.validations > 0
  \/ analysis.databaseOperations > 0
  \/ \E k \in 1..Len(analysis.methods) : IsBusinessLogicMethod(analysis.methods[k])

GeneratedFile(path, type, generator, analysis) ==
  [path |-> path, type |-> type, content |-> <<generator, analysis>>,
   sourceModule |-> analysis.fileName]

\* c when the condition of the if statement holds, nothing otherwise
When(condition, files) == IF condition THEN files ELSE <<>>

GenerateCleanArchitectureFiles(analysis, baseName) ==
  When(HasBusinessLogic(analysis),
       <<GeneratedFile(<<"Domain/Entities/", baseName, "Entity.cs">>, "Model",
                       "generateDomainEntity", analysis)>>)
  \o <<GeneratedFile(<<"Application/Services/", baseName, "Service.cs">>, "Service",
                     "generateApplicationService", analysis)>>
  \o When(analysis.databaseOperations > 0,
          <<GeneratedFile(<<"Application/Interfaces/I", baseName, "Repository.cs">>,
                          "Repository", "generateRepositoryInterface", analysis),
            GeneratedFile(<<"Infrastructure/Repositories/", baseName, "Repository.cs">>,
                          "Repository", "generateRepositoryImplementation", analysis)>>)
  \o When(analysis.moduleType = "Form",
          <<GeneratedFile(<<"Presentation/Controllers/", baseName, "Controller.cs">>,
                          "Controller", "generateController", analysis),
            GeneratedFile(<<"Presentation/ViewModels/", baseName, "ViewModel.cs">>,
                          "ViewModel", "generateViewModel", analysis)>>)

GenerateLayeredArchitectureFiles(analysis, baseName) ==
  <<GeneratedFile(<<"Business/", baseName, "BusinessLogic.cs">>, "Service",
                  "generateBusinessLogicClass", analysis)>>
  \o When(analysis.databaseOperations > 0,
          <<GeneratedFile(<<"Data/", baseName, "DataAccess.cs">>, "Repository",
                          "generateDataAccessClass", analysis)>>)
  \o When(analysis.moduleType = "Form",
          <<GeneratedFile(<<"Presentation/", baseName, "Presenter.cs">>, "Controller",
                          "generatePresenter", analysis)>>)

GenerateMVCFiles(analysis, baseName) ==
  <<GeneratedFile(<<"Models/", baseName, "Model.cs">>, "Model", "generateModel", analysis),
    GeneratedFile(<<"Controllers/", baseName, "Controller.cs">>, "Controller",
                  "generateMVCController", analysis)>>
  \o When(analysis.moduleType = "Form",
          <<GeneratedFile(<<"Views/", baseName, "/Index.cshtml">>, "View",
                          "generateMVCViews", analysis)>>)

GenerateMVVMFiles(analysis, baseName) ==
  <<GeneratedFile(<<"Models/", baseName, "Model.cs">>, "Model", "generateModel", analysis),
    GeneratedFile(<<"ViewModels/", baseName, "ViewModel.cs">>, "ViewModel",
                  "generateMVVMViewModel", analysis)>>
  \o When(HasBusinessLogic(analysis),
          <<GeneratedFile(<<"Services/", baseName, "Service.cs">>, "Service",
                          "generateMVVMService", analysis)>>)
  \o When(analysis.moduleType = "Form",
          <<GeneratedFile(<<"Views/", baseName, "View.xaml">>, "View",
                          "generateXAMLView", analysis)>>)

GenerateTests(analysis, baseName) ==
  When(HasBusinessLogic(analysis),
       <<GeneratedFile(<<"Tests/", baseName, "Tests.cs">>, "Test",
                       "generateUnitTests", analysis)>>)

\* the switch of migrateModule on targetArchitecture
GenerateFiles(analysis, targetArchitecture) ==
  CASE targetArchitecture = "Clean" ->
         GenerateCleanArchitectureFiles(analysis, BaseName(analysis.fileName))
    [] targetArchitecture = "Layered" ->
         GenerateLayeredArchitectureFiles(analysis, BaseName(analysis.fileName))
    [] targetArchitecture = "MVC" ->
         GenerateMVCFiles(analysis, BaseName(analysis.fileName))
    [] targetArchitecture = "MVVM" ->
         GenerateMVVMFiles(analysis, BaseName(analysis.fileName))

\* fs.writeFile: the file at the path holds the content, whatever it held
WriteFile(files, file) ==
  {f \in files : f.path # file.path} \cup {[path |-> file.path, content |-> file.content]}

\* the loop of writeGeneratedFiles and of writeProjectToDisk, left after n
\* files: in array order, each file is written over what the disk holds
RECURSIVE WriteFiles(_, _, _)
WriteFiles(onDisk, files, n) ==
  IF n = 0 THEN onDisk
  ELSE WriteFile(WriteFiles(onDisk, files, n - 1), files[n])

\* what a run may meet: no failure, or a rejected fs call
NoFault == [at |-> "none", k |-> 0]
Faults(files) ==
  {NoFault, [at |-> "ensureDir", k |-> 0], [at |-> "readFile", k |-> 0]}
  \cup {[at |-> "writeFile", k |-> k] : k \in 1..Len(files)}

\* the files writeGeneratedFiles gets through: all of them, or those before
\* the file whose write is rejected (the rejection leaves the loop)
WrittenCount(files, fault) ==
  IF fault.at = "writeFile" THEN fault.k - 1 ELSE Len(files)

\* MigrationResult, without its summary
MigrationResult(success, generatedFiles, errors) ==
  [success |-> success, generatedFiles |-> generatedFiles, errors |-> errors,
   warnings |-> <<>>]

\* the result of migrateModule: the catch block turns a rejection into an
\* entry of errors, and success is set only at the end of the try block
MigrateModuleResult(files, fault) ==
  CASE fault.at = "none" -> MigrationResult(TRUE, files, <<>>)
    [] fault.at = "writeFile" -> MigrationResult(FALSE, files, <<fault>>)
    [] OTHER -> MigrationResult(FALSE, <<>>, <<fault>>)

\* a migrateModule that removes what it wrote when a write is rejected
MigrateModuleDiskRolledBack(onDisk, files, fault) ==
  IF fault.at = "none" THEN WriteFiles(onDisk, files, Len(files)) ELSE onDisk

\* the disk migrateModule leaves
MigrateModuleDisk(onDisk, files, fault) ==
  IF fault.at \in {"ensureDir", "readFile"} THEN onDisk
  ELSE WriteFiles(onDisk, files, WrittenCount(files, fault))

TargetArchitectures == {"Clean", "Layered", "MVC", "MVVM"}

\* analysed modules: without any signal, with database operations, with a
\* calculation, with a validation and database operations, and with a
\* business word in a method body only
Analyses == {
  Analysis("Main", ".frm", "Form", 0, 0, 0, <<<<"x">>>>),
  Analysis("Util", ".bas", "Module", 0, 0, 0, <<>>),
  Analysis("Orders", ".bas", "Module", 1, 0, 0, <<>>),
  Analysis("Main", ".frm", "Form", 2, 0, 1, <<>>),
  Analysis("Tax", ".cls", "Class", 0, 1, 0, <<>>),
  Analysis("Util", ".bas", "Module", 0, 0, 0, <<<<"If", "x">>>>)
}

NoMigration ==
  [done |-> FALSE, runs |-> 0, analysis |-> Analysis("", "", "", 0, 0, 0, <<>>),
   targetArchitecture |-> "", generateTests |-> FALSE, fault |-> NoFault,
   before |-> {}, result |-> MigrationResult(FALSE, <<>>, <<>>)]

----------------------------------------------------------------------------
(* ModernArchitectureGenerator.generateProposal: the project graph proposed
   for a target architecture.  The name of a project is the pair of the
   name of the VB project and its suffix. *)

FileNames(moduleAnalyses) == [k \in 1..Len(moduleAnalyses) |-> moduleAnalyses[k].fileName]

IsBusinessLogicModule(m) ==
  m.moduleType = "Module" \/ m.moduleType = "Class" \/ m.calculations > 0 \/ m.validations > 0
IsApplicationModule(m) == Len(m.methods) > 0 /\ m.moduleType # "Form"
IsDataAccessModule(m) == m.databaseOperations > 0
IsUIModule(m) == m.moduleType = "Form"
IsUILogicModule(m) == m.moduleType = "Form" /\ m.events > 0
IsDataModule(m) == m.dataVariables \/ m.databaseOperations > 0

GetBusinessLogicModules(moduleAnalyses) == FileNames(SelectSeq(moduleAnalyses, IsBusinessLogicModule))
GetApplicationModules(moduleAnalyses) == FileNames(SelectSeq(moduleAnalyses, IsApplicationModule))
GetDataAccessModules(moduleAnalyses) == FileNames(SelectSeq(moduleAnalyses, IsDataAccessModule))
GetUIModules(moduleAnalyses) == FileNames(SelectSeq(moduleAnalyses, IsUIModule))
GetUILogicModules(moduleAnalyses) == FileNames(SelectSeq(moduleAnalyses, IsUILogicModule))
GetDataModules(moduleAnalyses) == FileNames(SelectSeq(moduleAnalyses, IsDataModule))

HasDataAccess(moduleAnalyses) ==
  \E k \in 1..Len(moduleAnalyses) : moduleAnalyses[k].databaseOperations > 0

ProjectName(vbProject, suffix) == <<vbProject, suffix>>

ProjectProposal(vbProject, suffix, type, dependencies, sourceModules) ==
  [name |-> ProjectName(vbProject, suffix), type |-> type,
   dependencies |-> [k \in 1..Len(dependencies) |-> ProjectName(vbProject, dependencies[k])],
   sourceModules |-> sourceModules]

UiType(options) == IF options.webBased THEN "Web" ELSE "Desktop"

GenerateCleanArchitecture(vbProject, moduleAnalyses, options) ==
  <<ProjectProposal(vbProject, "Domain", "Library", <<>>,
                    GetBusinessLogicModules(moduleAnalyses)),
    ProjectProposal(vbProject, "Application", "Library", <<"Domain">>,
                    GetApplicationModules(moduleAnalyses))>>
  \o When(options.includeDatabase \/ HasDataAccess(moduleAnalyses),
          <<ProjectProposal(vbProject, "Infrastructure", "Library",
                            <<"Domain", "Application">>,
                            GetDataAccessModules(moduleAnalyses))>>)
  \o <<ProjectProposal(vbProject, UiType(options), UiType(options),
                       <<"Application">> \o When(options.includeDatabase, <<"Infrastructure">>),
                       GetUIModules(moduleAnalyses))>>
  \o When(options.webBased,
          <<ProjectProposal(vbProject, "Api", "API", <<"Application", "Infrastructure">>,
                            <<>>)>>)
  \o <<ProjectProposal(vbProject, "Tests.Unit", "Library", <<"Domain", "Application">>,
                       <<>>)>>

GenerateLayeredArchitecture(vbProject, moduleAnalyses, options) ==
  <<ProjectProposal(vbProject, "Presentation", UiType(options), <<"Business">>,
                    GetUIModules(moduleAnalyses)),
    ProjectProposal(vbProject, "Business", "Library", <<"Data">>,
                    GetBusinessLogicModules(moduleAnalyses)),
    ProjectProposal(vbProject, "Data", "Library", <<>>,
                    GetDataAccessModules(moduleAnalyses))>>

GenerateMVCArchitecture(vbProject, moduleAnalyses) ==
  <<ProjectProposal(vbProject, "Web", "Web", <<"Models", "Services">>,
                    GetUIModules(moduleAnalyses)),
    ProjectProposal(vbProject, "Models", "Library", <<>>, GetDataModules(moduleAnalyses)),
    ProjectProposal(vbProject, "Services", "Library", <<"Models">>,
                    GetBusinessLogicModules(moduleAnalyses))>>

GenerateMVVMArchitecture(vbProject, moduleAnalyses) ==
  <<ProjectProposal(vbProject, "Desktop", "Desktop", <<"ViewModels", "Services">>,
                    GetUIModules(moduleAnalyses)),
    ProjectProposal(vbProject, "ViewModels", "Library", <<"Models", "Services">>,
                    GetUILogicModules(moduleAnalyses)),
    ProjectProposal(vbProject, "Models", "Library", <<>>, GetDataModules(moduleAnalyses)),
    ProjectProposal(vbProject, "Services", "Library", <<"Models">>,
                    GetBusinessLogicModules(moduleAnalyses))>>

\* m.fileName.replace(/\d+$/, '').replace(/Form|Module/, ''), on the file
\* names of the analysed modules
DomainName(fileName) ==
  CASE fileName = <<"OrdersForm", ".vb">> -> "Orders.vb"
    [] fileName = <<"OrdersModule", ".vb">> -> "Orders.vb"
    [] OTHER -> fileName[1]

\* the groups of more than one module, in the order of their first module
DomainGroups(moduleAnalyses, names) ==
  LET first(k) == \A j \in 1..(k - 1) : names[j] # names[k]
      many(k) == \E j \in 1..Len(names) : j # k /\ names[j] = names[k]
      heads == SelectSeq([k \in 1..Len(names) |-> k], LAMBDA k : first(k) /\ many(k))
  IN [d \in 1..Len(heads) |->
        [name |-> names[heads[d]],
         modules |-> FileNames(SelectSeq(moduleAnalyses,
                                         LAMBDA m : DomainName(m.fileName) = names[heads[d]]))]]

\* identifyBusinessDomains: the groups, or the Core domain of all the
\* modules when there is no group
IdentifyBusinessDomains(moduleAnalyses) ==
  LET domains == DomainGroups(moduleAnalyses,
                              [k \in 1..Len(moduleAnalyses) |->
                                 DomainName(moduleAnalyses[k].fileName)])
  IN IF Len(domains) = 0
       THEN <<[name |-> "Core", modules |-> FileNames(moduleAnalyses)]>>
     ELSE domains

GenerateMicroservicesArchitecture(vbProject, moduleAnalyses) ==
  LET businessDomains == IdentifyBusinessDomains(moduleAnalyses)
  IN [d \in 1..Len(businessDomains) |->
        [name |-> <<vbProject, businessDomains[d].name, "Service">>, type |-> "API",
         dependencies |-> <<ProjectName(vbProject, "Shared")>>,
         sourceModules |-> businessDomains[d].modules]]
     \o <<ProjectProposal(vbProject, "Gateway", "API", <<>>, <<>>),
          ProjectProposal(vbProject, "Web", "Web", <<>>, GetUIModules(moduleAnalyses))>>

\* the switch of generateStructure: the projects of the structure
GenerateStructure(vbProject, moduleAnalyses, targetArchitecture, options) ==
  CASE targetArchitecture = "Clean" -> GenerateCleanArchitecture(vbProject, moduleAnalyses, options)
    [] targetArchitecture = "Layered" -> GenerateLayeredArchitecture(vbProject, moduleAnalyses, options)
    [] targetArchitecture = "MVC" -> GenerateMVCArchitecture(vbProject, moduleAnalyses)
    [] targetArchitecture = "MVVM" -> GenerateMVVMArchitecture(vbProject, moduleAnalyses)
    [] targetArchitecture = "Microservices" -> GenerateMicroservicesArchitecture(vbProject, moduleAnalyses)
    [] OTHER -> GenerateCleanArchitecture(vbProject, moduleAnalyses, options)

\* the sharedLibraries of the structure: generateCleanArchitecture pushes
\* <name>.Shared, the other styles return the list empty
SharedLibraries(vbProject, targetArchitecture) ==
  IF targetArchitecture \in {"Layered", "MVC", "MVVM", "Microservices"} THEN <<>>
  ELSE <<ProjectName(vbProject, "Shared")>>

ProposalArchitectures == TargetArchitectures \cup {"Microservices"}

ProposalOptions == [includeDatabase : BOOLEAN, webBased : BOOLEAN]

\* the analysed modules of a project: a form, a form with database
\* operations, and two modules of one business domain
ProjectAnalyses == {
  [Analysis("Main", ".frm", "Form", 0, 0, 0, <<>>) EXCEPT !.events = 1],
  [Analysis("OrdersForm", ".vb", "Form", 1, 0, 0, <<<<"x">>>>) EXCEPT !.dataVariables = TRUE],
  Analysis("OrdersModule", ".vb", "Module", 0, 1, 0, <<<<"x">>>>),
  Analysis("Tax", ".cls", "Class", 0, 0, 0, <<>>)
}

ModuleAnalysesLists ==
  {<<>>} \cup {<<a>> : a \in ProjectAnalyses}
  \cup {p \in ProjectAnalyses \X ProjectAnalyses : p[1] # p[2]}

NoProposal ==
  [done |-> FALSE, targetArchitecture |-> "", options |-> [includeDatabase |-> FALSE, webBased |-> FALSE],
   moduleAnalyses |-> <<>>, projects |-> <<>>, sharedLibraries |-> <<>>]

----------------------------------------------------------------------------
(* CSharpGenerator.generateProject and LegacyCodeAnalyzer.performMigration:
   the files of the migrated project, and their writing under the output
   path.  A VB project is its name and the names of its classes, forms and
   modules. *)

VBProject(name, classes, forms, modules) ==
  [name |-> name, classes |-> classes, forms |-> forms, modules |-> modules]

CSharpFile(path, type, content) == [path |-> path, type |-> type, content |-> content]

\* generateGuid draws every digit from Math.random: two of the values a
\* call may return
Guids == {"A", "B"}

Guid(coreGuid, dataGuid, winformsGuid, testsGuid) ==
  [coreGuid |-> coreGuid, dataGuid |-> dataGuid, winformsGuid |-> winformsGuid,
   testsGuid |-> testsGuid]

\* the four generateGuid calls of generateSolutionFile: the draws are
\* independent; these are the outcomes in which the last three agree
SolutionGuids == {Guid(a, b, b, b) : a \in Guids, b \in Guids}

GenerateSolutionFile(vbProject, guids) ==
  CSharpFile(<<vbProject.name, ".sln">>, "Config",
             <<"solution", vbProject.name, guids.coreGuid, guids.dataGuid,
               guids.winformsGuid, guids.testsGuid>>)

\* the path of a file of a project of the solution:
\* `${root}/${vbProject.name}.${subsystem}/${rest}`
PathIn(root, vbProject, subsystem, rest) == <<root, vbProject.name, ".", subsystem, "/">> \o rest

\* `${vbProject.name}.${subsystem}.csproj`
ProjectFile(root, vbProject, subsystem) ==
  CSharpFile(PathIn(root, vbProject, subsystem, <<vbProject.name, ".", subsystem, ".csproj">>),
             "Config", <<"csproj", vbProject.name, subsystem>>)

GenerateMainProjectFile(vbProject) == ProjectFile("src/", vbProject, "WinForms")
GenerateCoreProjectFile(vbProject) == ProjectFile("src/", vbProject, "Core")
GenerateDataProjectFile(vbProject) == ProjectFile("src/", vbProject, "Data")
GenerateTestProjectFile(vbProject) == ProjectFile("tests/", vbProject, "Tests")

GenerateModel(vbProject, vbClass) ==
  CSharpFile(PathIn("src/", vbProject, "Core", <<"Models/", vbClass, ".cs">>), "Model",
             <<"model", vbClass>>)
GenerateForm(vbProject, vbForm) ==
  <<CSharpFile(PathIn("src/", vbProject, "WinForms", <<"Forms/", vbForm, ".cs">>), "Form",
               <<"form", vbForm>>),
    CSharpFile(PathIn("src/", vbProject, "WinForms", <<"Forms/", vbForm, ".Designer.cs">>),
               "Form", <<"designer", vbForm>>)>>
GenerateService(vbProject, vbModule) ==
  CSharpFile(PathIn("src/", vbProject, "Core", <<"Services/", vbModule, "Service.cs">>),
             "Service", <<"service", vbModule>>)
GenerateAppConfig(vbProject) ==
  CSharpFile(PathIn("src/", vbProject, "WinForms", <<"appsettings.json">>), "Config",
             <<"appsettings", vbProject.name>>)
GenerateProgramFile(vbProject) ==
  CSharpFile(PathIn("src/", vbProject, "WinForms", <<"Program.cs">>), "Config",
             <<"program", vbProject.name>>)

\* the files of the forms, two for each form, in the order of the forms
RECURSIVE GenerateForms(_, _)
GenerateForms(vbProject, forms) ==
  IF forms = <<>> THEN <<>>
  ELSE GenerateForm(vbProject, Head(forms)) \o GenerateForms(vbProject, Tail(forms))

\* generateProject(): csharpProject.files
GenerateProjectFiles(vbProject, guids) ==
  <<GenerateSolutionFile(vbProject, guids), GenerateMainProjectFile(vbProject),
    GenerateCoreProjectFile(vbProject), GenerateDataProjectFile(vbProject),
    GenerateTestProjectFile(vbProject)>>
  \o [k \in 1..Len(vbProject.classes) |-> GenerateModel(vbProject, vbProject.classes[k])]
  \o GenerateForms(vbProject, vbProject.forms)
  \o [k \in 1..Len(vbProject.modules) |-> GenerateService(vbProject, vbProject.modules[k])]
  \o <<GenerateAppConfig(vbProject), GenerateProgramFile(vbProject)>>

\* the subsystems a list of files spans: the projects of the solution its
\* paths lie in
Subsystems(files) ==
  {files[k].path[4] : k \in {j \in 1..Len(files) : Len(files[j].path) > 4}}

VBProjects == {
  VBProject("Shop", <<>>, <<>>, <<>>),
  VBProject("Shop", <<"Order">>, <<"Main">>, <<"Util">>)
}

\* the rejections writeProjectToDisk may meet: none, or that of the k-th
\* write
WriteFaults(files) == {NoFault} \cup {[at |-> "writeFile", k |-> k] : k \in 1..Len(files)}

NoGenerated ==
  [done |-> FALSE, call |-> "", migrations |-> 0, vbProject |-> VBProject("", <<>>, <<>>, <<>>),
   architecture |-> "", files |-> <<>>, again |-> FALSE, previous |-> <<>>,
   fault |-> NoFault, before |-> {}, returns |-> FALSE,
   result |-> [success |-> FALSE, generatedFiles |-> 0, warnings |-> <<>>, errors |-> <<>>]]

----------------------------------------------------------------------------
(* VBParser.parseVBProject: extraction of a project from the tree under the
   project path.  The tree is the list of its project files, in the order
   glob finds them, and the list of VB source files; the project file of a
   VB6 project lists the source files of the tree. *)

\* a source file: what its content declares, and what reading it does
\* ("ok", "rejects", or "missing" for a file a .vbp lists that is not there)
SourceFile(name, ext, declares, read) ==
  [name |-> name, ext |-> ext, declares |-> declares, read |-> read]

\* the units of a project
Units(forms, modules, classes) == [forms |-> forms, modules |-> modules, classes |-> classes]

\* a run of the parser: the project it has built so far, or a rejection
Parsed(units) == [returns |-> TRUE, units |-> units]
Rejected == [returns |-> FALSE, units |-> Units(<<>>, <<>>, <<>>)]

\* parseVBForm, parseVBModule, parseVBClass: a file that does not exist is
\* skipped with a warning; readFile may reject
ParseVBForm(file, units) ==
  IF file.read = "missing" THEN Parsed(units)
  ELSE IF file.read = "rejects" THEN Rejected
  ELSE Parsed([units EXCEPT !.forms = Append(@, file.name)])
ParseVBModule(file, units) ==
  IF file.read = "missing" THEN Parsed(units)
  ELSE IF file.read = "rejects" THEN Rejected
  ELSE Parsed([units EXCEPT !.modules = Append(@, file.name)])
ParseVBClass(file, units) ==
  IF file.read = "missing" THEN Parsed(units)
  ELSE IF file.read = "rejects" THEN Rejected
  ELSE Parsed([units EXCEPT !.classes = Append(@, file.name)])

\* parseVBCodeFile: the unit is chosen by what the content includes
ParseVBCodeFile(file, units) ==
  CASE file.declares = "form" -> Parsed([units EXCEPT !.forms = Append(@, file.name)])
    [] file.declares = "class" -> Parsed([units EXCEPT !.classes = Append(@, file.name)])
    [] file.declares = "module" -> Parsed([units EXCEPT !.modules = Append(@, file.name)])
    [] OTHER -> Parsed(units)

\* parseVBFile: the file is read first, then parsed by its extension
ParseVBFile(file, units) ==
  IF file.read = "rejects" THEN Rejected
  ELSE CASE file.ext = ".vb" -> ParseVBCodeFile(file, units)
         [] file.ext = ".frm" -> ParseVBForm(file, units)
         [] file.ext = ".bas" -> ParseVBModule(file, units)
         [] file.ext = ".cls" -> ParseVBClass(file, units)
         [] OTHER -> Parsed(units)

\* one turn of a loop over files: a rejection so far is the outcome
Then(parsed, file, Parse(_, _)) ==
  IF parsed.returns THEN Parse(file, parsed.units) ELSE parsed

\* findVBFiles: the source files glob finds under the project path
IsFound(file) == file.read # "missing"
FindVBFiles(tree) == SelectSeq(tree.files, IsFound)

\* the loop of parseVBProjFile over the files findVBFiles returns: a
\* rejection of parseVBFile is not caught, and leaves the loop
RECURSIVE ParseVBFiles(_, _)
ParseVBFiles(vbFiles, n) ==
  IF n = 0 THEN Parsed(Units(<<>>, <<>>, <<>>))
  ELSE Then(ParseVBFiles(vbFiles, n - 1), vbFiles[n], ParseVBFile)

\* parseVBProjFile: parseStringPromise rejects a project file that is not
\* well-formed XML
ParseVBProjFile(tree) ==
  IF ~tree.wellFormed THEN Rejected
  ELSE ParseVBFiles(FindVBFiles(tree), Len(FindVBFiles(tree)))

\* a line of a .vbp file: Form=, Module= and Class= lines are parsed
ParseVBPLine(file, units) ==
  CASE file.ext = ".frm" -> ParseVBForm(file, units)
    [] file.ext = ".bas" -> ParseVBModule(file, units)
    [] file.ext = ".cls" -> ParseVBClass(file, units)
    [] OTHER -> Parsed(units)

\* the loop of parseVBPFile over the lines of the project file
RECURSIVE ParseVBPLines(_, _)
ParseVBPLines(files, n) ==
  IF n = 0 THEN Parsed(Units(<<>>, <<>>, <<>>))
  ELSE Then(ParseVBPLines(files, n - 1), files[n], ParseVBPLine)

ParseVBPFile(tree) == ParseVBPLines(tree.files, Len(tree.files))

\* parseProjectFile: by the extension of the project file
ParseProjectFile(projectFile, tree) ==
  IF projectFile = ".vbproj" THEN ParseVBProjFile(tree) ELSE ParseVBPFile(tree)

\* findProjectFiles: the .vbproj and .vbp files glob finds
FindProjectFiles(tree) == tree.projectFiles

\* a parseVBProject that parses the source files without a project file
ParseVBProjectAnyway(tree) == ParseVBProjFile(tree)

\* parseVBProject(): the first project file found is parsed
ParseVBProject(tree) ==
  IF Len(FindProjectFiles(tree)) = 0 THEN Rejected
  ELSE ParseProjectFile(FindProjectFiles(tree)[1], tree)

SourceFiles == {
  SourceFile("Main", ".vb", "form", "ok"),
  SourceFile("Order", ".vb", "class", "rejects"),
  SourceFile("Util", ".bas", "module", "ok"),
  SourceFile("Login", ".frm", "form", "missing"),
  SourceFile("Tax", ".cls", "class", "ok"),
  SourceFile("Notes", ".vb", "none", "ok")
}

Trees ==
  [projectFiles : {<<>>, <<".vbproj">>, <<".vbp">>, <<".vbp", ".vbproj">>},
   wellFormed : BOOLEAN,
   files : {<<>>} \cup {<<a>> : a \in SourceFiles}
           \cup {p \in SourceFiles \X SourceFiles : p[1] # p[2]}]

NoExtraction ==
  [done |-> FALSE, tree |-> [projectFiles |-> <<>>, wellFormed |-> TRUE, files |-> <<>>],
   returns |-> FALSE, units |-> Units(<<>>, <<>>, <<>>)]

----------------------------------------------------------------------------
(* VBModuleAnalyzer: the line scanners of analyzeModule *)

\* A file is a sequence of lines and a line a sequence of tokens; a leading
\* BL is the indentation that trim() drops and the body keeps.

\* methodStartPattern on a trimmed line: an optional visibility, Sub or
\* Function, then the name
AfterVisibility(trimmed) ==
  IF Len(trimmed) > 0 /\ Head(trimmed) \in {"Public", "Private", "Friend"}
  THEN Tail(trimmed) ELSE trimmed

MethodStartMatches(declaration) ==
  /\ Len(declaration) >= 2
  /\ declaration[1] \in {"Sub", "Function"}
  /\ IsWord(declaration[2])

\* methodEndPattern of extractMethods: /^End\s+(Sub|Function)/i
MethodEndMatches(trimmed) ==
  /\ Len(trimmed) >= 2
  /\ trimmed[1] = "End"
  /\ trimmed[2] \in {"Sub", "Function"}

\* the VBMethod opened by a declaration on line index + 1
VBMethod(trimmed, declaration, lineNumber) ==
  [name |-> declaration[2],
   visibility |-> IF declaration = trimmed THEN "Public" ELSE Head(trimmed),
   isFunction |-> declaration[1] = "Function",
   lineNumber |-> lineNumber,
   body |-> <<>>]

NoMethods == [currentMethod |-> <<>>, methodBody |-> <<>>, methods |-> <<>>]

\* one turn of the forEach of extractMethods
ExtractMethodsLine(st, line, trimmed, lineNumber) ==
  IF st.currentMethod # <<>>
  THEN IF MethodEndMatches(trimmed)
       THEN [currentMethod |-> <<>>, methodBody |-> <<>>,
             methods |-> Append(st.methods,
                                [st.currentMethod[1] EXCEPT !.body = st.methodBody])]
       ELSE [st EXCEPT !.methodBody = Append(@, line)]
  ELSE IF MethodStartMatches(AfterVisibility(trimmed))
       THEN [st EXCEPT !.currentMethod =
                         <<VBMethod(trimmed, AfterVisibility(trimmed), lineNumber)>>]
       ELSE st

\* the scanner of extractMethods after the first n lines
RECURSIVE ExtractMethodsScan(_, _)
ExtractMethodsScan(lines, n) ==
  IF n = 0 THEN NoMethods
  ELSE ExtractMethodsLine(ExtractMethodsScan(lines, n - 1), lines[n],
                          Trim(lines[n]), n)

ExtractMethods(lines) == ExtractMethodsScan(lines, Len(lines)).methods

\* (\w+)_(\w+) on the name of a handler: the control and the event
EventParts(name) ==
  CASE name = "btn_Click" -> <<"btn", "Click">>
    [] OTHER -> <<>>

\* eventPattern: /^(Private\s+)?Sub\s+(\w+)_(\w+)\s*(\([^)]*\))?/i
AfterPrivate(trimmed) ==
  IF Len(trimmed) > 0 /\ Head(trimmed) = "Private" THEN Tail(trimmed) ELSE trimmed

EventStartMatches(declaration) ==
  /\ Len(declaration) >= 2
  /\ declaration[1] = "Sub"
  /\ EventParts(declaration[2]) # <<>>

\* methodEndPattern of extractEvents: /^End\s+Sub/i
EventEndMatches(trimmed) ==
  Len(trimmed) >= 2 /\ trimmed[1] = "End" /\ trimmed[2] = "Sub"

VBEvent(declaration) ==
  [controlName |-> EventParts(declaration[2])[1],
   eventType |-> EventParts(declaration[2])[2],
   handler |-> declaration[2],
   body |-> <<>>]

NoEvents == [currentEvent |-> <<>>, eventBody |-> <<>>, events |-> <<>>]

\* one turn of the forEach of extractEvents
ExtractEventsLine(st, line, trimmed) ==
  IF st.currentEvent # <<>>
  THEN IF EventEndMatches(trimmed)
       THEN [currentEvent |-> <<>>, eventBody |-> <<>>,
             events |-> Append(st.events,
                               [st.currentEvent[1] EXCEPT !.body = st.eventBody])]
       ELSE [st EXCEPT !.eventBody = Append(@, line)]
  ELSE IF EventStartMatches(AfterPrivate(trimmed))
       THEN [st EXCEPT !.currentEvent = <<VBEvent(AfterPrivate(trimmed))>>]
       ELSE st

RECURSIVE ExtractEventsScan(_, _)
ExtractEventsScan(lines, n) ==
  IF n = 0 THEN NoEvents
  ELSE ExtractEventsLine(ExtractEventsScan(lines, n - 1), lines[n], Trim(lines[n]))

ExtractEvents(lines) == ExtractEventsScan(lines, Len(lines)).events

\* trimmed.startsWith('Begin VB.')
StartsWithBeginVB(trimmed) ==
  Len(trimmed) >= 3 /\ SubSeq(trimmed, 1, 3) = <<"Begin", "VB", ".">>

\* /Begin VB\.(\w+)\s+(\w+)/
BeginVBMatches(trimmed) ==
  Len(trimmed) >= 5 /\ IsWord(trimmed[4]) /\ IsWord(trimmed[5])

\* position of the first "=" of a line from position i on, 0 when there is none
RECURSIVE IndexOfEquals(_, _)
IndexOfEquals(trimmed, i) ==
  IF i > Len(trimmed) THEN 0
  ELSE IF trimmed[i] = "=" THEN i
  ELSE IndexOfEquals(trimmed, i + 1)

\* value.replace(/"/g, '') on a token
Unquoted(tok) ==
  CASE tok = "\"s\"" -> "s"
    [] tok = "\"t\"" -> "t"
    [] OTHER -> tok

\* trimmed.split('=').map(s => s.trim()): the first two parts
PropertyName(trimmed, eq) == Trim(SubSeq(trimmed, 1, eq - 1))

PropertyValue(rest) ==
  [k \in 1..Len(rest) |-> Unquoted(rest[k])]

ValuePart(rest, eq) ==
  PropertyValue(Trim(IF eq = 0 THEN rest ELSE SubSeq(rest, 1, eq - 1)))

SecondPart(trimmed, eq) ==
  ValuePart(SubSeq(trimmed, eq + 1, Len(trimmed)),
            IndexOfEquals(SubSeq(trimmed, eq + 1, Len(trimmed)), 1))

\* properties[prop] = value
SetProperty(properties, prop, value) ==
  {p \in properties : p[1] # prop} \cup {<<prop, value>>}

VBControl(trimmed) ==
  [name |-> trimmed[5], type |-> trimmed[4], properties |-> {}]

NoControls == [currentControl |-> <<>>, inControlDefinition |-> FALSE,
               controls |-> <<>>]

\* one turn of the forEach of extractControls
ExtractControlsLine(st, trimmed) ==
  IF StartsWithBeginVB(trimmed)
  THEN IF BeginVBMatches(trimmed)
       THEN [st EXCEPT !.currentControl = <<VBControl(trimmed)>>,
                       !.inControlDefinition = TRUE]
       ELSE st
  ELSE IF trimmed = <<"End">> /\ st.currentControl # <<>> /\ st.inControlDefinition
  THEN [currentControl |-> <<>>, inControlDefinition |-> FALSE,
        controls |-> Append(st.controls, st.currentControl[1])]
  ELSE IF st.inControlDefinition /\ st.currentControl # <<>>
          /\ IndexOfEquals(trimmed, 1) # 0
  THEN [st EXCEPT !.currentControl[1].properties =
          SetProperty(@, PropertyName(trimmed, IndexOfEquals(trimmed, 1)),
                      SecondPart(trimmed, IndexOfEquals(trimmed, 1)))]
  ELSE st

RECURSIVE ExtractControlsScan(_, _)
ExtractControlsScan(lines, n) ==
  IF n = 0 THEN NoControls
  ELSE ExtractControlsLine(ExtractControlsScan(lines, n - 1), Trim(lines[n]))

ExtractControls(lines) == ExtractControlsScan(lines, Len(lines)).controls

\* moduleType of analyzeModule, "" for an extension it rejects
ModuleType(extension) ==
  CASE extension = ".frm" -> "Form"
    [] extension = ".bas" -> "Module"
    [] extension = ".cls" -> "Class"
    [] OTHER -> ""

\* generateMigrationNotes: the note of a form and the note of a crowded form;
\* the other notes come from database, file, Variant, GoTo, CreateObject and
\* On Error lines and from code smells
MigrationNotes(moduleType, controls) ==
  IF moduleType # "Form" THEN <<>>
  ELSE <<"Form migration: Consider modern UI framework (WPF, WinUI, or web-based)">>
       \o (IF Len(controls) > 10
           THEN <<"Complex UI: Consider breaking into smaller components">>
           ELSE <<>>)

\* the VBModuleAnalysis of analyzeModule: the units and the notes
VBModuleAnalysis(moduleType, lines, controls) ==
  [moduleType |-> moduleType,
   methods |-> ExtractMethods(lines),
   events |-> ExtractEvents(lines),
   controls |-> controls,
   migrationNotes |-> MigrationNotes(moduleType, controls)]

AnalyzeModuleResult(extension, lines) ==
  VBModuleAnalysis(ModuleType(extension), lines,
                   IF ModuleType(extension) = "Form" THEN ExtractControls(lines)
                   ELSE <<>>)

\* the lines of the code files and of the form descriptions
MaxLines == 5

CodeLines == {
  <<"Sub", "Calc", "(", ")">>,
  <<"Private", "Function", "Total", "(", ")", "As", "Integer">>,
  <<"Private", "Sub", "btn_Click", "(", ")">>,
  <<BL, "x", "=", "1">>,
  <<"End", "Sub">>,
  <<"End", "Function">>
}

FormLines == {
  <<"Begin", "VB", ".", "Frame", "Frame1">>,
  <<BL, "Begin", "VB", ".", "TextBox", "Text1">>,
  <<BL, "Caption", "=", "\"s\"">>,
  <<BL, "Text", "=", "\"t\"">>,
  <<"End">>
}

Contents(alphabet) == UNION {[1..n -> alphabet] : n \in 0..MaxLines}

ModuleFiles ==
  [extension : {".bas", ".cls", ".frm"}, lines : Contents(CodeLines)]
  \cup [extension : {".frm"}, lines : Contents(FormLines)]

NoScan ==
  [done |-> FALSE, extension |-> ".bas", lines |-> <<>>,
   analysis |-> VBModuleAnalysis("Module", <<>>, <<>>)]

----------------------------------------------------------------------------
(* LegacyMCPServer: the stdio handlers *)

\* the request lines a client writes; json is whether JSON.parse accepts the
\* line, name the tool of a tools/call
RequestLine(json, method, name) == [json |-> json, method |-> method, name |-> name]

RequestLines == {
  RequestLine(TRUE, "initialize", ""),
  RequestLine(TRUE, "tools/list", ""),
  RequestLine(TRUE, "tools/call", "analyze_vb_project"),
  RequestLine(TRUE, "tools/call", "apply_migration_rules"),
  RequestLine(TRUE, "tools/call", "no_such_tool"),
  RequestLine(TRUE, "resources/list", ""),
  RequestLine(FALSE, "", "")
}

\* the tools whose handler awaits the file system before it answers
AwaitsIO(name) == name \in {"analyze_vb_project"}

\* a request in flight: its position among the lines read and its line
Request(n, line) == [n |-> n, line |-> line]

\* an MCPResponse: the id it carries, its error code (0 for a result) and
\* the position of the line it answers
MCPResponse(id, code, n) == [id |-> id, code |-> code, of |-> n]

\* the response of handleToolCall to a request: the result of the tool, or
\* the error of an unknown tool or of a handler that threw (found is whether
\* the path the tool was given exists)
HandleToolCall(request, found) ==
  IF request.line.name \in {"analyze_vb_project", "apply_migration_rules"} /\ found
  THEN MCPResponse(request.n, 0, request.n)
  ELSE MCPResponse(request.n, -32603, request.n)

\* handleRequest up to its first await, or to its end when it has none:
\* the server after the line at position n is handled
HandleRequest(srv, n, line) ==
  IF ~line.json
  THEN [srv EXCEPT !.read = Append(@, line),
                   !.stdout = Append(@, MCPResponse(0, -32700, n))]
  ELSE IF line.method \in {"initialize", "tools/list"}
  THEN [srv EXCEPT !.read = Append(@, line),
                   !.stdout = Append(@, MCPResponse(n, 0, n))]
  ELSE IF line.method = "tools/call"
  THEN IF AwaitsIO(line.name)
       THEN [srv EXCEPT !.read = Append(@, line),
                        !.io = @ \cup {Request(n, line)}]
       ELSE [srv EXCEPT !.read = Append(@, line),
                        !.microtasks = Append(@, Request(n, line))]
  ELSE [srv EXCEPT !.read = Append(@, line),
                   !.stdout = Append(@, MCPResponse(n, -32601, n))]

HandleRequestAt(srv, line) == HandleRequest(srv, Len(srv.read) + 1, line)

\* the for loop of the 'data' listener over the lines of one chunk
RECURSIVE HandleLines(_, _, _)
HandleLines(srv, lines, k) ==
  IF k = 0 THEN srv
  ELSE HandleRequestAt(HandleLines(srv, lines, k - 1), lines[k])

MaxRequests == 4
MaxChunk == 2

Chunks == UNION {[1..n -> RequestLines] : n \in 1..MaxChunk}

NoServer == [read |-> <<>>, microtasks |-> <<>>, io |-> {}, stdout |-> <<>>]

----------------------------------------------------------------------------
(* The state machines *)

\* the registry the constructor leaves: the rules as declared
InitRules == [k \in 1..NBuiltin |-> Entry(k, k)]

Init ==
  /\ rules = InitRules
  /\ nextSeq = NBuiltin + 1
  /\ call = NoCall
  /\ memo = NoMemo
  /\ emit = NoEmit
  /\ conv = NoConv
  /\ migration = NoMigration
  /\ disk = {}
  /\ generated = NoGenerated
  /\ proposal = NoProposal
  /\ extraction = NoExtraction
  /\ scanned = NoScan
  /\ server = NoServer

\* getRules(): a copy of the registry
GetRules == rules

\* index of the first rule with this id, 0 when there is none (findIndex)
FindIndex(rs, id) ==
  IF \E k \in 1..Len(rs) : Def(rs[k]).id = id
    THEN Min({k \in 1..Len(rs) : Def(rs[k]).id = id}) ELSE 0

\* getRuleById(id) on a registry: the first rule with this id, <<>> for
\* undefined
GetRuleById(rs, id) ==
  IF FindIndex(rs, id) = 0 THEN <<>> ELSE <<Def(rs[FindIndex(rs, id)])>>

AddCustomRule(ix) ==
  /\ nextSeq <= NBuiltin + MaxAdds
  /\ rules' = Append(rules, Entry(ix, nextSeq))
  /\ nextSeq' = nextSeq + 1
  /\ call' = NoCall
  /\ memo' = NoMemo
  /\ UNCHANGED <<emit, conv, pipeline>>

RemoveRule(id) ==
  LET index == FindIndex(rules, id) IN
  /\ rules' = IF index # 0
                THEN SubSeq(rules, 1, index - 1) \o SubSeq(rules, index + 1, Len(rules))
                ELSE rules
  /\ call' = IF index # 0 THEN NoCall ELSE call
  /\ memo' = IF index # 0 THEN NoMemo ELSE memo
  /\ UNCHANGED <<nextSeq, emit, conv, pipeline>>

\* applyRules(text, context).  call records the call; memo keeps the first
\* call made since the registry was last changed by addCustomRule or
\* removeRule.
ApplyRulesCall(text, context) ==
  \E r \in {ApplyRules(rules, text, context)} :
  /\ call' = [done |-> TRUE, first |-> ~call.done, text |-> text,
              context |-> context, out |-> r.out, by |-> r.by, steps |-> r.steps,
              before |-> rules, raised |-> r.raised]
  /\ rules' = SortRules(rules)
  /\ memo' = IF memo.done THEN memo
             ELSE [done |-> TRUE, text |-> text, context |-> context, out |-> r.out,
                   raised |-> r.raised]
  /\ UNCHANGED <<nextSeq, emit, conv, pipeline>>

Next ==
  \/ \E ix \in CustomIx : AddCustomRule(ix)
  \/ \E id \in RemovableIds : RemoveRule(id)
  \/ \E c \in Calls : ApplyRulesCall(c.text, c.context)

Spec == Init /\ [][Next]_vars

----------------------------------------------------------------------------
(* Emission of methods.  rules is the registry of the MigrationRulesEngine
   the generator owns; no rule is added to it or removed from it. *)

\* the lines of a method body
Lines == {
  <<>>,
  <<BL>>,
  <<"Dim", "x", "As", "Integer">>,
  <<"MsgBox", "\"s\"", ",", "vbCritical">>,
  <<"x", "=", "a", "&", "b", "&", "c">>,
  <<"y">>
}

\* method bodies of one line and of two lines
Bodies == Lines \cup {a \o <<NL>> \o b : a \in Lines, b \in Lines}

EmitMethod(body) ==
  \E r \in {ConvertVBMethodToCSharp(rules, body)} :
  /\ emit' = [done |-> TRUE, path |-> "generator", body |-> body, out |-> r.text,
              returns |-> r.returns]
  /\ rules' = r.rules
  /\ UNCHANGED <<nextSeq, call, memo, conv, pipeline>>

EmitServiceMethod(body) ==
  /\ emit' = [done |-> TRUE, path |-> "service", body |-> body,
              out |-> MigrateMethodToService(body), returns |-> TRUE]
  /\ UNCHANGED <<rules, nextSeq, call, memo, conv, pipeline>>

EmitEntityMethod(body) ==
  /\ emit' = [done |-> TRUE, path |-> "entity", body |-> body,
              out |-> MigrateMeTODo(body), returns |-> TRUE]
  /\ UNCHANGED <<rules, nextSeq, call, memo, conv, pipeline>>

NextEmit ==
  \/ \E body \in Bodies : EmitMethod(body)
  \/ \E body \in Bodies : EmitServiceMethod(body)
  \/ \E body \in Bodies : EmitEntityMethod(body)

SpecEmit == Init /\ [][NextEmit]_vars

----------------------------------------------------------------------------
(* Conversion of fixtures by the two engines, and conversion of the output
   once more.  rules is the registry of a MigrationRulesEngine with the
   built-in rules. *)

\* statements for each construct of which both rule sets declare a rule
FixtureLines == {
  <<"Dim", "nombre", "As", "String">>,
  <<"resultado", "=", "\"s\"", "&", "\"t\"">>,
  <<"total", "=", "a", "&", "b", "&", "c">>,
  <<"ok", "=", "Not", "a", "And", "b">>,
  <<"'", "nota">>,
  <<"Me", ".", "Close", "(", ")">>
}

Fixtures ==
  FixtureLines \cup {a \o <<NL>> \o b : a \in FixtureLines, b \in FixtureLines}
  \cup {MethodText}

\* migrateVBtoCSharp(text)
MigrateFixture(text) ==
  /\ conv' = [done |-> TRUE, engine |-> "enhanced", again |-> FALSE, text |-> text,
              out |-> MigrateVBtoCSharp(text), raised |-> FALSE]
  /\ UNCHANGED <<rules, nextSeq, call, memo, emit, pipeline>>

\* migrateVBtoCSharp on the output of migrateVBtoCSharp
MigrateAgain ==
  /\ conv.done /\ conv.engine = "enhanced" /\ ~conv.again
  /\ conv' = [conv EXCEPT !.again = TRUE, !.text = conv.out,
                          !.out = MigrateVBtoCSharp(conv.out)]
  /\ UNCHANGED <<rules, nextSeq, call, memo, emit, pipeline>>

\* applyRules(text, context), the text being the file
ApplyRulesToFixture(text) ==
  \E r \in {ApplyRules(rules, text, Context(".vb", text, "WinForms"))} :
  /\ conv' = [done |-> TRUE, engine |-> "rules", again |-> FALSE, text |-> text,
              out |-> r.out, raised |-> r.raised]
  /\ rules' = SortRules(rules)
  /\ UNCHANGED <<nextSeq, call, memo, emit, pipeline>>

\* applyRules on the output of applyRules
ApplyRulesAgain ==
  /\ conv.done /\ conv.engine = "rules" /\ ~conv.again /\ ~conv.raised
  /\ \E r \in {ApplyRules(rules, conv.out, Context(".vb", conv.out, "WinForms"))} :
       conv' = [conv EXCEPT !.again = TRUE, !.text = conv.out, !.out = r.out,
                            !.raised = r.raised]
  /\ rules' = SortRules(rules)
  /\ UNCHANGED <<nextSeq, call, memo, emit, pipeline>>

NextConv ==
  \/ \E text \in Fixtures : MigrateFixture(text)
  \/ MigrateAgain
  \/ \E text \in Fixtures : ApplyRulesToFixture(text)
  \/ ApplyRulesAgain

SpecConv == Init /\ [][NextConv]_vars

----------------------------------------------------------------------------
(* Migration of a module *)

\* migrateModule(analysis, targetArchitecture, outputDirectory, options)
MigrateModule(analysis, targetArchitecture, generateTests) ==
  /\ migration.runs < MaxRuns
  /\ \E files \in {GenerateFiles(analysis, targetArchitecture)
                   \o When(generateTests, GenerateTests(analysis, BaseName(analysis.fileName)))} :
       \E fault \in Faults(files) :
         /\ migration' = [done |-> TRUE, runs |-> migration.runs + 1,
                          analysis |-> analysis,
                          targetArchitecture |-> targetArchitecture,
                          generateTests |-> generateTests, fault |-> fault,
                          before |-> disk,
                          result |-> MigrateModuleResult(files, fault)]
         /\ disk' = MigrateModuleDisk(disk, files, fault)
  /\ UNCHANGED <<engine, generated, proposal, extraction, frontend>>

NextMigrate ==
  \E analysis \in Analyses, targetArchitecture \in TargetArchitectures,
     generateTests \in BOOLEAN :
    MigrateModule(analysis, targetArchitecture, generateTests)

SpecMigrate == Init /\ [][NextMigrate]_vars

----------------------------------------------------------------------------
(* Proposal of an architecture *)

\* generateProposal(vbProject, moduleAnalyses, targetArchitecture, options)
GenerateProposal(moduleAnalyses, targetArchitecture, options) ==
  /\ proposal' = [done |-> TRUE, targetArchitecture |-> targetArchitecture,
                  options |-> options, moduleAnalyses |-> moduleAnalyses,
                  projects |-> GenerateStructure("Shop", moduleAnalyses,
                                                 targetArchitecture, options),
                  sharedLibraries |-> SharedLibraries("Shop", targetArchitecture)]
  /\ UNCHANGED <<engine, migration, disk, generated, extraction, frontend>>

NextProposal ==
  \E moduleAnalyses \in ModuleAnalysesLists, targetArchitecture \in ProposalArchitectures,
     options \in ProposalOptions :
    GenerateProposal(moduleAnalyses, targetArchitecture, options)

SpecProposal == Init /\ [][NextProposal]_vars

----------------------------------------------------------------------------
(* Generation and writing of a project *)

\* generator.generateProject() on a generator constructed for vbProject;
\* previous keeps the files of the call before it when that call was made
\* for the same project
GenerateProject(vbProject) ==
  \E guids \in SolutionGuids :
    /\ generated' = [generated EXCEPT
                       !.done = TRUE, !.call = "generateProject",
                       !.vbProject = vbProject, !.architecture = "",
                       !.files = GenerateProjectFiles(vbProject, guids),
                       !.again = generated.done /\ generated.vbProject = vbProject,
                       !.previous = generated.files,
                       !.fault = NoFault, !.returns = TRUE]
    /\ UNCHANGED <<engine, migration, disk, proposal, extraction, frontend>>

\* what performMigration returns when no call is rejected
PerformMigrationResult(files) ==
  [success |-> TRUE, generatedFiles |-> Len(files), warnings |-> <<>>, errors |-> <<>>]

\* performMigration(outputPath, options) after analyze() has set vbProject;
\* a rejected write is not caught, and rejects the call
PerformMigration(vbProject, architecture) ==
  /\ generated.migrations < MaxMigrations
  /\ \E guids \in SolutionGuids :
       \E files \in {GenerateProjectFiles(vbProject, guids)} :
         \E fault \in WriteFaults(files) :
           /\ generated' = [done |-> TRUE, call |-> "performMigration",
                            migrations |-> generated.migrations + 1,
                            vbProject |-> vbProject, architecture |-> architecture,
                            files |-> files,
                            again |-> generated.done /\ generated.vbProject = vbProject,
                            previous |-> generated.files,
                            fault |-> fault, before |-> disk,
                            returns |-> fault.at = "none",
                            result |-> IF fault.at = "none"
                                         THEN PerformMigrationResult(files)
                                         ELSE NoGenerated.result]
           /\ disk' = WriteFiles(disk, files, WrittenCount(files, fault))
  /\ UNCHANGED <<engine, migration, proposal, extraction, frontend>>

NextProject ==
  \/ \E vbProject \in VBProjects : GenerateProject(vbProject)
  \/ \E vbProject \in VBProjects, architecture \in ProposalArchitectures :
       PerformMigration(vbProject, architecture)

SpecProject == Init /\ [][NextProject]_vars

----------------------------------------------------------------------------
(* Extraction of a project *)

\* new VBParser(projectPath).parseVBProject() on a tree
ParseVBProjectCall(tree) ==
  /\ \E r \in {ParseVBProject(tree)} :
       extraction' = [done |-> TRUE, tree |-> tree, returns |-> r.returns,
                      units |-> r.units]
  /\ UNCHANGED <<engine, migration, disk, generated, proposal, frontend>>

NextParse == \E tree \in Trees : ParseVBProjectCall(tree)

SpecParse == Init /\ [][NextParse]_vars

----------------------------------------------------------------------------
(* Analysis of a module *)

\* new VBModuleAnalyzer().analyzeModule(filePath) on a file that exists
AnalyzeModule(file) ==
  /\ \E r \in {AnalyzeModuleResult(file.extension, file.lines)} :
       scanned' = [done |-> TRUE, extension |-> file.extension,
                   lines |-> file.lines, analysis |-> r]
  /\ UNCHANGED <<engine, migration, disk, generated, proposal, extraction, server>>

\* the analyzer keeps nothing between calls: a behaviour holds one call
NextAnalyze == ~scanned.done /\ \E file \in ModuleFiles : AnalyzeModule(file)

SpecAnalyze == Init /\ [][NextAnalyze]_vars

----------------------------------------------------------------------------
(* The stdio server *)

\* process.stdin 'data': every line of the chunk is handed to handleRequest,
\* which is not awaited
OnData(lines) ==
  /\ server.microtasks = <<>>
  /\ Len(server.read) + Len(lines) <= MaxRequests
  /\ server' = HandleLines(server, lines, Len(lines))
  /\ UNCHANGED <<engine, migration, disk, generated, proposal, extraction, scanned>>

\* the continuation of handleRequest after `await this.handleToolCall` of a
\* call that awaited nothing else: sendResponse
ResumeHandleRequest ==
  /\ server.microtasks # <<>>
  /\ server' = [server EXCEPT !.microtasks = Tail(@),
                              !.stdout = Append(@, HandleToolCall(Head(server.microtasks), TRUE))]
  /\ UNCHANGED <<engine, migration, disk, generated, proposal, extraction, scanned>>

\* the file system answers a call in flight: its handler runs to its end
\* and handleRequest sends the response
IOCompleted(request, found) ==
  /\ server.microtasks = <<>>
  /\ request \in server.io
  /\ server' = [server EXCEPT !.io = @ \ {request},
                              !.stdout = Append(@, HandleToolCall(request, found))]
  /\ UNCHANGED <<engine, migration, disk, generated, proposal, extraction, scanned>>

NextServer ==
  \/ \E lines \in Chunks : OnData(lines)
  \/ ResumeHandleRequest
  \/ \E request \in server.io, found \in BOOLEAN : IOCompleted(request, found)

SpecServer == Init /\ [][NextServer]_vars

----------------------------------------------------------------------------
(* The rule engine contract *)

\* the rule of the registry that carries the stamp seq, and its position
PosOf(seq) == CHOOSE k \in 1..Len(rules) : rules[k].seq = seq
RuleOf(seq) == Def(rules[PosOf(seq)])

\* C1: in every applyRules call, whatever addCustomRule, removeRule and
\* applyRules calls came before it, a rule is applied before another one
\* only if its priority is higher, or the priorities are equal and it was
\* declared or added first.
C1_AppliedByPriorityThenDeclaration ==
  call.done =>
    \A k, l \in 1..Len(call.steps) :
      k < l =>
        LET a == call.steps[k]
            b == call.steps[l]
        IN \/ RuleTable[a.ix].priority > RuleTable[b.ix].priority
           \/ /\ RuleTable[a.ix].priority = RuleTable[b.ix].priority
              /\ a.seq < b.seq

\* a call, not the first one since a rule was removed, that applies two added
\* rules of equal priority and a built-in rule of that priority
C1_Witness ==
  /\ call.done /\ ~call.first
  /\ Len(rules) < nextSeq - 1
  /\ \E k, l, m \in 1..Len(call.steps) :
       /\ m < k /\ k < l
       /\ call.steps[m].ix <= NBuiltin
       /\ call.steps[k].ix > NBuiltin /\ call.steps[l].ix > NBuiltin
       /\ RuleTable[call.steps[k].ix].priority = RuleTable[call.steps[l].ix].priority
       /\ RuleTable[call.steps[m].ix].priority = RuleTable[call.steps[l].ix].priority

\* C2: within one applyRules call the text a rule is applied to holds no
\* output of a rule that comes later in the order, method bodies rewritten
\* through convertMethodBody included.
C2_NoOutputOfLaterRules ==
  call.done =>
    \A k \in 1..Len(call.steps) :
      \A seq \in call.steps[k].saw : PosOf(seq) < PosOf(call.steps[k].seq)

\* C3: a rule changes text in an applyRules call, nested calls included, only
\* if all of its conditions hold against the context of the call.
C3_ChangesOnlyUnderItsConditions ==
  call.done => \A seq \in call.by : ShouldApplyRule(RuleOf(seq), call.context)

\* C4: every rule applied in an applyRules call, built-in or added, replaces
\* every non-overlapping match of its pattern in the text it is applied to.
C4_EveryMatchReplaced ==
  call.done =>
    \A k \in 1..Len(call.steps) : call.steps[k].replaced = call.steps[k].matches

C6_RegistryUnchangedByCall ==
  call.done => GetRules = call.before

\* a list of rules in which no rule precedes one of higher priority
IsSortedByPriority(rs) ==
  \A k \in 1..(Len(rs) - 1) : Prio(rs[k]) >= Prio(rs[k + 1])

\* C7: getRules() is sorted by descending priority on a new engine and after
\* any sequence of addCustomRule, removeRule and applyRules calls.
C7_GetRulesSorted == IsSortedByPriority(GetRules)

\* C8: applyRules on the empty text does not throw and returns the
\* placeholder comment.
C8_EmptyInputGivesPlaceholder ==
  (call.done /\ call.text = <<>>)
    => (~call.raised /\ Includes(call.out, PlaceholderLogic))

----------------------------------------------------------------------------
(* Boundaries and convergence *)

HasPlaceholder(t) == Includes(t, PlaceholderLogic) \/ Includes(t, PlaceholderBody)

\* C9: on every emit path a method whose body is empty or holds white space
\* only is emitted, without a throw, with the placeholder comment in its body.
C9_BlankBodyEmitsPlaceholder ==
  (emit.done /\ IsBlank(emit.body)) => (emit.returns /\ HasPlaceholder(emit.out))

----------------------------------------------------------------------------
(* Routing of entities to artifacts *)

\* the number of files of a type in a list of generated files
CountType(files, type) == Cardinality({k \in 1..Len(files) : files[k].type = type})

\* C11: in every architecture style, a migration that succeeds emits as many
\* Repository files as it has data-access-bearing entities: one when the
\* migrated module has a database operation, none otherwise.
C11_RepositoryPerDataAccessEntity ==
  (migration.done /\ migration.result.success) =>
    CountType(migration.result.generatedFiles, "Repository")
      = (IF migration.analysis.databaseOperations > 0 THEN 1 ELSE 0)

\* C12: in every architecture style, a module with no business-logic signal
\* and no database operation gets no Service file and no Repository file.
C12_NoSignalNoServiceNoRepository ==
  (migration.done /\ ~HasBusinessLogic(migration.analysis)) =>
    /\ CountType(migration.result.generatedFiles, "Service") = 0
    /\ CountType(migration.result.generatedFiles, "Repository") = 0

----------------------------------------------------------------------------
(* The project graph *)

\* C13: in every proposed structure, whatever the architecture and the
\* options, each dependency of a project is a project that comes before it
\* in the list of projects.
C13_DependenciesPointEarlier ==
  proposal.done =>
    \A k \in 1..Len(proposal.projects) :
      \A d \in 1..Len(proposal.projects[k].dependencies) :
        \E j \in 1..(k - 1) :
          proposal.projects[j].name = proposal.projects[k].dependencies[d]

\* the names of the projects of a structure, without the name of the VB
\* project
Suffixes(projects) == {Tail(projects[k].name) : k \in 1..Len(projects)}

\* C14: the Clean structure holds the Infrastructure project only if a
\* module has a database operation.
C14_InfrastructureOnlyWithDataAccess ==
  (proposal.done /\ proposal.targetArchitecture = "Clean"
     /\ <<"Infrastructure">> \in Suffixes(proposal.projects))
    => HasDataAccess(proposal.moduleAnalyses)

\* the paths of a list of files
Paths(files) == {files[k].path : k \in 1..Len(files)}

\* the sets of project names the structure of an architecture may have,
\* over the analysed modules and the options
Graphs(targetArchitecture) ==
  {Suffixes(GenerateStructure("Shop", moduleAnalyses, targetArchitecture, options)) :
     moduleAnalyses \in ModuleAnalysesLists, options \in ProposalOptions}

\* C15: the tree performMigration emits is that of the selected
\* architecture: its subsystems are the projects of the structure of that
\* architecture, and its paths are not those emitted for an architecture
\* of another structure.
C15_TreeMirrorsSelectedArchitecture ==
  (generated.done /\ generated.call = "performMigration" /\ generated.returns) =>
    /\ {<<x>> : x \in Subsystems(generated.files)} \in Graphs(generated.architecture)
    /\ \A other \in ProposalArchitectures :
         Graphs(other) # Graphs(generated.architecture) =>
           \A guids \in SolutionGuids :
             Paths(GenerateProjectFiles(generated.vbProject, guids)) # Paths(generated.files)

\* C16: a generateProject call for the VB project of the call before it
\* returns the files that call returned: the same paths with the same
\* contents, the solution file included.
C16_GenerateProjectIsPure ==
  (generated.done /\ generated.again) => generated.files = generated.previous

----------------------------------------------------------------------------
(* Writing and its failures *)

\* the file of the disk at a path
HasFile(onDisk, path, content) == [path |-> path, content |-> content] \in onDisk

\* the content last written to the path of files[i] by the first n writes
LastWritten(files, i, n) ==
  files[CHOOSE j \in i..n : files[j].path = files[i].path
                            /\ \A l \in (j + 1)..n : files[l].path # files[i].path].content

\* C17: when the k-th write of writeGeneratedFiles is rejected, every file
\* written before it is on the disk with the content written, and every
\* file the disk held before the call is still there, with its content
\* unless one of these writes replaced it.
C17_WritesBeforeFailureRemain ==
  (migration.done /\ migration.fault.at = "writeFile") =>
    LET files == migration.result.generatedFiles
        n == migration.fault.k - 1
    IN /\ \A i \in 1..n : HasFile(disk, files[i].path, LastWritten(files, i, n))
       /\ \A f \in migration.before :
            \/ f \in disk
            \/ \E i \in 1..n : files[i].path = f.path

\* the second migration into an output directory, rejected at its third
\* write or later, after writing over a file of the first migration
C17_Witness ==
  /\ migration.done /\ migration.fault.at = "writeFile" /\ migration.fault.k > 2
  /\ migration.runs = 2
  /\ \E f \in migration.before :
       /\ f \notin disk
       /\ \E i \in 1..(migration.fault.k - 1) :
            migration.result.generatedFiles[i].path = f.path
  /\ \E f \in migration.before : f \in disk

\* C18: when one write is rejected, only that write is given up: the other
\* generated files are on the disk, and the result is a success that
\* carries the failure as a warning.
C18_WriteFailureIsFileScoped ==
  (migration.done /\ migration.fault.at = "writeFile") =>
    /\ migration.result.success
    /\ migration.result.warnings # <<>>
    /\ \A i \in 1..Len(migration.result.generatedFiles) :
         i # migration.fault.k =>
           \E f \in disk : f.path = migration.result.generatedFiles[i].path

----------------------------------------------------------------------------
(* Extraction and its failures *)

\* C19: parseVBProject rejects, and returns no project, whenever the tree
\* holds no .vbproj and no .vbp file.
C19_NoDescriptorNoProject ==
  (extraction.done /\ extraction.tree.projectFiles = <<>>) => ~extraction.returns

\* a tree of readable source files without a project file
C19_Witness ==
  /\ extraction.done /\ extraction.tree.projectFiles = <<>>
  /\ Len(extraction.tree.files) = 2
  /\ \A k \in 1..2 : extraction.tree.files[k].read = "ok"
  /\ ~extraction.returns

\* the names of the units of a project
UnitNames(units) ==
  {units.forms[k] : k \in 1..Len(units.forms)}
  \cup {units.modules[k] : k \in 1..Len(units.modules)}
  \cup {units.classes[k] : k \in 1..Len(units.classes)}

\* a source file the glob finds, that is read and declares a unit
YieldsUnit(file) == file.read = "ok" /\ file.declares # "none"

\* C20: when the extraction of one source file of a well-formed .vbproj
\* project throws and another source file yields a unit, the call still
\* returns a project, with the unit of every source file that yields one.
C20_ThrowingFileIsSkipped ==
  (/\ extraction.done
   /\ extraction.tree.projectFiles # <<>>
   /\ extraction.tree.projectFiles[1] = ".vbproj"
   /\ extraction.tree.wellFormed
   /\ \E k \in 1..Len(extraction.tree.files) : extraction.tree.files[k].read = "rejects"
   /\ \E k \in 1..Len(extraction.tree.files) : YieldsUnit(extraction.tree.files[k]))
    => /\ extraction.returns
       /\ \A k \in 1..Len(extraction.tree.files) :
            YieldsUnit(extraction.tree.files[k])
              => extraction.tree.files[k].name \in UnitNames(extraction.units)

\* C21: parseVBProject never returns a project without units: when a
\* project file is found and no form, module or class is recovered, the
\* call rejects.
C21_NoUnitsIsFatal ==
  (extraction.done /\ extraction.tree.projectFiles # <<>> /\ extraction.returns)
    => UnitNames(extraction.units) # {}

\* the first line from position i on that ends a unit of this kind ("Sub" or
\* "Function"), 0 when there is none
RECURSIVE TerminatorFrom(_, _, _)
TerminatorFrom(lines, i, kind) ==
  IF i > Len(lines) THEN 0
  ELSE IF Len(Trim(lines[i])) >= 2 /\ SubSeq(Trim(lines[i]), 1, 2) = <<"End", kind>>
  THEN i
  ELSE TerminatorFrom(lines, i + 1, kind)

KindOf(method) == IF method.isFunction THEN "Function" ELSE "Sub"

\* C22: every method analyzeModule extracts was closed by the terminator of
\* its own kind (End Sub for a Sub, End Function for a Function), and its
\* body is, verbatim, every line between its declaration and that terminator.
C22_ClosedByOwnTerminator ==
  scanned.done =>
    \A k \in 1..Len(scanned.analysis.methods) :
      LET method == scanned.analysis.methods[k]
          end == TerminatorFrom(scanned.lines, method.lineNumber + 1, KindOf(method))
      IN  /\ end # 0
          /\ method.body = SubSeq(scanned.lines, method.lineNumber + 1, end - 1)

\* the line of the declaration extractMethods still has open at the end of
\* the file, 0 when it has none
OpenMethodAt(lines) ==
  IF ExtractMethodsScan(lines, Len(lines)).currentMethod = <<>> THEN 0
  ELSE ExtractMethodsScan(lines, Len(lines)).currentMethod[1].lineNumber

\* the analysis of the file cut before the declaration left open
WithoutOpenMethod(extension, lines) ==
  AnalyzeModuleResult(extension, SubSeq(lines, 1, OpenMethodAt(lines) - 1))

\* C23: when the end of the file is reached with a method still open, the
\* method is discarded, the methods closed before it are kept, and the
\* analysis of the file records the incident: it carries a note that the
\* analysis of the same file without the unfinished method does not carry.
C23_UnterminatedIsDiscardedAndNoted ==
  (scanned.done /\ OpenMethodAt(scanned.lines) # 0) =>
    /\ scanned.analysis.methods
         = WithoutOpenMethod(scanned.extension, scanned.lines).methods
    /\ scanned.analysis.migrationNotes
         # WithoutOpenMethod(scanned.extension, scanned.lines).migrationNotes

\* the End that closes the block opened on line i: the first End from line j
\* on met at depth 0, 0 when the block is not closed
RECURSIVE BlockEnd(_, _, _)
BlockEnd(lines, j, depth) ==
  IF j > Len(lines) THEN 0
  ELSE IF StartsWithBeginVB(Trim(lines[j])) THEN BlockEnd(lines, j + 1, depth + 1)
  ELSE IF Trim(lines[j]) = <<"End">>
  THEN IF depth = 0 THEN j ELSE BlockEnd(lines, j + 1, depth - 1)
  ELSE BlockEnd(lines, j + 1, depth)

\* the lines that open a `Begin VB.<Type> <Name>` block that is closed
Blocks(lines) ==
  {i \in 1..Len(lines) :
     /\ StartsWithBeginVB(Trim(lines[i]))
     /\ BeginVBMatches(Trim(lines[i]))
     /\ BlockEnd(lines, i + 1, 0) # 0}

\* the `key = value` lines between the Begin on line i and its End, as the
\* property bag they make
RECURSIVE BlockProperties(_, _, _)
BlockProperties(lines, i, j) ==
  IF j <= i THEN {}
  ELSE IF IndexOfEquals(Trim(lines[j]), 1) = 0 THEN BlockProperties(lines, i, j - 1)
  ELSE SetProperty(BlockProperties(lines, i, j - 1),
                   PropertyName(Trim(lines[j]), IndexOfEquals(Trim(lines[j]), 1)),
                   SecondPart(Trim(lines[j]), IndexOfEquals(Trim(lines[j]), 1)))

\* C28: for a form, every `Begin VB.<Type> <Name>` ... `End` block of the
\* file, a block that holds nested blocks included, yields exactly one
\* control: there are as many controls as blocks, and each block has a
\* control of its type and name whose properties hold the `key = value`
\* lines of the block.
C28_OneControlPerBlock ==
  (scanned.done /\ scanned.analysis.moduleType = "Form") =>
    /\ Len(scanned.analysis.controls) = Cardinality(Blocks(scanned.lines))
    /\ \A i \in Blocks(scanned.lines) :
         \E k \in 1..Len(scanned.analysis.controls) :
           /\ scanned.analysis.controls[k].name = Trim(scanned.lines[i])[5]
           /\ scanned.analysis.controls[k].type = Trim(scanned.lines[i])[4]
           /\ \A p \in BlockProperties(scanned.lines, i,
                                       BlockEnd(scanned.lines, i + 1, 0)) :
                p \in scanned.analysis.controls[k].properties

\* C24: whatever addCustomRule and removeRule calls came before, a
\* removeRule(id) call returns true exactly when a rule with that id is
\* registered; after a call that returned true getRuleById(id) is undefined,
\* and a call that returned false leaves the registry as it was.
C24_RemoveRuleContract ==
  [][\A id \in RemovableIds :
       RemoveRule(id) =>
         /\ (FindIndex(rules, id) # 0) <=> (\E k \in 1..Len(rules) : Def(rules[k]).id = id)
         /\ (FindIndex(rules, id) # 0) => GetRuleById(rules', id) = <<>>
         /\ (FindIndex(rules, id) = 0) => rules' = rules]_vars

\* the positions of t where the tokens of part start
Occurrences(t, part) ==
  {i \in 1..Len(t) : i + Len(part) - 1 <= Len(t) /\ SubSeq(t, i, i + Len(part) - 1) = part}

\* C25: for a text that holds `If x > 5 Then`, a body and `End If`, the
\* output of applyRules holds `if (x > 5)` and, in place of `End If`, a
\* closing brace that closes a block opened for that if: an opening brace
\* stands between the condition and the closing brace.
C25_IfBlockIsBraced ==
  (call.done /\ call.text = IfText) =>
    /\ ~call.raised
    /\ \E i \in Occurrences(call.out, <<"if", "(", "x", ">", "5", ")">>) :
         \E k \in Occurrences(call.out, <<"}">>) :
           /\ Occurrences(call.out, <<"End", "If">>) = {}
           /\ \E j \in Occurrences(call.out, <<"{">>) : i < j /\ j < k

\* the Dim ... As New statement of a call and the statement the rule
\* vb-new-object makes of it
NewObjectText == <<"Dim", "x", "As", "New", "T", "(", ")">>

\* C27: for the text `Dim x As New T()` and the built-in rules, the output
\* of applyRules is `var x = new T()`.
C27_NewObjectIsConverted ==
  (call.done /\ call.text = NewObjectText
     /\ \A k \in 1..Len(call.before) : call.before[k].ix <= NBuiltin) =>
    (~call.raised /\ call.out = <<"var", "x", "=", "new", "T", "(", ")">>)

\* C26: for every method body, blank or not, changed by an engine or not,
\* the conversion chain of the generator (enhanced engine, baseline engine,
\* basic conversion) comes to an end and returns a string: no stage is
\* entered again and again until the stack is exhausted.
C26_ConversionChainReturns ==
  (emit.done /\ emit.path = "generator") => emit.returns

\* the names a dependency of the proposal can name: its projects and its
\* shared libraries
NamesOfProposal ==
  {proposal.projects[k].name : k \in 1..Len(proposal.projects)}
  \cup {proposal.sharedLibraries[k] : k \in 1..Len(proposal.sharedLibraries)}

\* C29: in every proposal, each dependency listed by a project names a
\* project or a shared library of the same proposal.
C29_DependenciesAreInTheProposal ==
  proposal.done =>
    \A k \in 1..Len(proposal.projects) :
      \A d \in 1..Len(proposal.projects[k].dependencies) :
        proposal.projects[k].dependencies[d] \in NamesOfProposal

\* C30: the stdio server writes its responses in the order in which the
\* request lines were read, also when several lines arrive in one chunk and
\* some of them are tool calls that await the file system.
C30_ResponsesInRequestOrder ==
  \A i, j \in 1..Len(server.stdout) :
    i < j => server.stdout[i].of < server.stdout[j].of

====
